---- MODULE Spec2Model ----
(***************************************************************************)
(* Concurrent CSV processing pipeline: multi-source reader, worker pool,   *)
(* error collector and the orchestrating Pipeline.Run / Pipeline.Stop.     *)
(* Channels are bounded FIFO queues, every goroutine is a process with a   *)
(* program counter, a Go select over several ready cases is a              *)
(* nondeterministic choice among them.                                     *)
(***************************************************************************)
EXTENDS Integers, Sequences, FiniteSets, TLC

\* ---------------------------------------------------------------- bounds
NumSources == 2
MaxRows == 2
MaxWorkers == 2
MaxBuf == 2
MaxErrCap == 1
MaxRecords == 3
MaxStopRows == 1
MaxStopBuf == 1
NumCallers == 2
MaxOps == 2
MaxLimit == 2
MaxBadHeaderRows == 1
MaxFaultRows == 2
MaxSemLimit == 2
MaxSemOps == 3
MaxPoolRecords == 2
MaxPoolCalls == 2
MaxEntries == 2
MaxErrBuf == 1
MaxTrackOps == 2
MaxCopyEntries == 2
MaxSpare == 1
MaxReads == 2
MaxChanges == 2

\* ------------------------------------------------------ program constants
ErrorBufferSize == 10
DefaultReaderBuffer == 100
DefaultErrorBuffer == 10

\* Error policies of a run: ErrorThreshold as an exact rational
\* <<numerator, denominator>> with AbortOnError. The default configuration
\* (threshold 0.0 = disabled, no abort) and a threshold of 0.5 with abort.
Policies == {[ErrorThreshold |-> <<0, 1>>, AbortOnError |-> FALSE],
             [ErrorThreshold |-> <<1, 2>>, AbortOnError |-> TRUE]}

Sources == 1..NumSources

\* Header lines of the input files: a reference header, one that differs from
\* it in one field name, one that differs in field order, and one that
\* validateHeaders rejects (a duplicate name).
HeaderRef == <<"id", "name">>
HeaderRenamed == <<"id", "user">>
HeaderReordered == <<"name", "id">>
HeaderDuplicate == <<"id", "id">>
Headers == {HeaderRef, HeaderRenamed, HeaderReordered, HeaderDuplicate}

\* Field counts of a data row: a row with one field misses a field of the
\* two-column headers above.
FieldCounts == {1, 2}

\* State of a file on disk when readFile opens it.
FileKinds == {"ok", "missing", "empty"}

\* models.ProcessingStatus plus a status outside the three named constants
\* (ProcessingStatus is a string type; NewResult accepts any value).
StatusSuccess == "SUCCESS"
StatusFailed == "FAILED"
StatusSkipped == "SKIPPED"
StatusOther == "OTHER"

\* What one call of Processor.Process can hand back to the worker: a Result
\* with one of the statuses (a Failed one carries ErrInvalidRecord), or a
\* non-nil error.
Outcomes == {StatusSuccess, StatusFailed, StatusSkipped, StatusOther, "ERROR"}

VARIABLES
    config,          \* pipeline.Config (numeric / boolean fields)
    files,           \* files[s] = number of data rows of source s
    csv,             \* csv[s] = the file of source s: kind, header line, rows
    runPc,           \* position of Pipeline.Run
    runResult,       \* what Run returned: "none", "nil", "aborted"
    ctxDone,         \* Pipeline.ctx cancelled
    emittedAtCancel, \* per source: records sent when the signal was received
    srcPc,           \* per-source reading task position
    lineNumber,      \* per-source lineNumber (data rows read so far)
    recordCh,        \* reader's record channel
    readerErrCh,     \* reader's error channel
    readerClosed,    \* recordCh and errCh closed
    commonHeader,    \* commonHeader of Read (<<>> = nil)
    errsBy,          \* per source: the errors its task has sent on errCh
    emittedBy,       \* per source: records its task has sent on recordCh
    sigPc,           \* goroutine of setupSignalHandling
    workerPool,      \* Pipeline.workerPool != nil
    started,         \* Pool.started
    poolCtxDone,     \* Pool.ctx cancelled
    wpc,             \* per-worker position
    wres,            \* per-worker Result in hand
    outputCh,        \* Pool.outputCh
    errorCh,         \* Pool.errorCh
    poolClosed,      \* outputCh and errorCh closed by the finalizer
    hrPc,            \* handleResults position
    hrRes,           \* Result held by handleResults
    rePc,            \* handleReaderErrors position
    wePc,            \* handleWorkerErrors position
    summary,         \* models.Summary counters
    written,         \* lines written to config.OutputWriter
    errors,          \* Collector.errors
    totalProcessed,  \* Collector.totalProcessed
    colCtxDone,      \* Collector.ctx cancelled
    stopPc,          \* position of a concurrent Pipeline.Stop() call
    emitted,         \* records sent on recordCh so far
    invoked,         \* calls of Processor.Process so far
    produced,        \* Results sent on outputCh so far
    callPc,          \* collector harness: per-caller position
    callOps,         \* collector harness: calls made per caller
    mu,              \* Collector.mu owner (0 = free)
    addRet,          \* collector harness: value returned by the last Add
    semaphore,       \* Semaphore.slots: its capacity and its length
    semCtxDone,      \* the context handed to AcquireContext is done
    semPc,           \* semaphore harness: the call each caller is inside
    semOps,          \* semaphore harness: calls made per caller
    semRet,          \* semaphore harness: what each caller's last call returned
    acquires,        \* semaphore harness: acquires completed
    releases,        \* semaphore harness: releases completed
    panicked,        \* a goroutine has panicked
    pwPc,            \* pool harness: position of each worker goroutine
    pwRes,           \* pool harness: Result each worker holds
    wgCount,         \* pool harness: counter of Pool.wg
    finWaiting,      \* pool harness: finalizer goroutines inside wg.Wait()
    finalizers,      \* pool harness: finalizer goroutines spawned so far
    spawned,         \* pool harness: worker goroutines spawned so far
    poolCall,        \* pool harness: per caller, the call it is in or made last
    sentOnClosed,    \* pool harness: a worker has sent on a closed channel
    entries,         \* taxonomy harness: Collector.errors as ErrorEntry values
    tracker,         \* ProgressTracker counters
    trackPc,         \* tracker harness: per caller, the update it is inside
    trackOps,        \* tracker harness: per caller, updates begun
    heap,            \* copy harness: the backing arrays allocated so far
    colErrors,       \* copy harness: the slice Collector.errors
    held             \* copy harness: the value a read returned to the caller

vars == <<config, files, csv, runPc, runResult, ctxDone, emittedAtCancel, srcPc, lineNumber,
          recordCh, readerErrCh, readerClosed, commonHeader, errsBy, emittedBy,
          sigPc, workerPool, started, poolCtxDone,
          wpc, wres, outputCh, errorCh, poolClosed, hrPc, hrRes, rePc, wePc,
          summary, written, errors, totalProcessed, colCtxDone, stopPc,
          emitted, invoked, produced, callPc, callOps, mu, addRet,
          semaphore, semCtxDone, semPc, semOps, semRet, acquires, releases,
          panicked, pwPc, pwRes, wgCount, finWaiting, finalizers, spawned,
          poolCall, sentOnClosed, entries, tracker, trackPc, trackOps,
          heap, colErrors, held>>

readerAux == <<commonHeader, errsBy, emittedBy>>
readerVars == <<srcPc, lineNumber, recordCh, readerErrCh, readerClosed, emitted,
                readerAux>>
poolVars == <<started, poolCtxDone, wpc, wres, outputCh, errorCh, poolClosed,
              invoked, produced>>
consumerVars == <<hrPc, hrRes, rePc, wePc, summary, written>>
collectorVars == <<errors, totalProcessed, colCtxDone>>
semVars == <<semaphore, semCtxDone, semPc, semOps, semRet, acquires, releases,
             panicked>>
poolHarnessVars == <<pwPc, pwRes, wgCount, finWaiting, finalizers, spawned,
                     poolCall, sentOnClosed>>
trackerVars == <<tracker, trackPc, trackOps>>
copyVars == <<heap, colErrors, held>>
componentVars == <<semVars, poolHarnessVars, entries, trackerVars, copyVars>>
harnessVars == <<callPc, callOps, mu, addRet, componentVars>>
runVars == <<runPc, runResult, workerPool, sigPc>>
constVars == <<config, files, csv>>

Workers == 1..config.Workers

\* ------------------------------------------------------------ buffer sizes
\* reader.NewCSVReader: BufferSize 0 defaults to 100.
RecordChCap == IF config.BufferSize = 0 THEN DefaultReaderBuffer ELSE config.BufferSize
\* worker.NewPool: OutputBufferSize <= 0 defaults to Workers * 2.
OutputChCap == IF config.BufferSize <= 0 THEN config.Workers * 2 ELSE config.BufferSize
\* worker.NewPool: ErrorBufferSize <= 0 defaults to 10.
ErrorChCap ==
    IF config.ErrorBufferSize <= 0 THEN DefaultErrorBuffer
    ELSE config.ErrorBufferSize
\* reader.Read: errCh := make(chan error, len(r.files))
ReaderErrChCap == NumSources

\* ------------------------------------------------------------- collector
\* Variant of the comparison that also triggers at a rate equal to the
\* threshold.
RateReaches(n, processed, thr) ==
    /\ processed > 0
    /\ n * thr[2] >= thr[1] * processed

\* Variant of the comparison without the guard on a processed count of 0:
\* the float division of a positive count by 0 gives +Inf.
RateExceedsUnguarded(n, processed, thr) ==
    IF processed = 0 THEN n > 0 ELSE n * thr[2] > thr[1] * processed

\* Collector.calculateErrorRate() > Collector.errorThreshold, on exact
\* rationals: a processed count of 0 gives rate 0.
RateExceeds(n, processed, thr) ==
    /\ processed > 0
    /\ n * thr[2] > thr[1] * processed

\* Collector.ThresholdExceeded
ThresholdExceeded ==
    /\ config.ErrorThreshold[1] # 0
    /\ RateExceeds(Len(errors), totalProcessed, config.ErrorThreshold)

\* Collector.HasErrors
HasErrors == Len(errors) > 0

\* Variant of the guard that lets one entry too many in.
LimitReachedOffByOne(errs) == config.MaxErrors > 0 /\ Len(errs) > config.MaxErrors

\* The max-errors guard of Add and AddWithCategory.
LimitReached(errs) == config.MaxErrors > 0 /\ Len(errs) >= config.MaxErrors

\* Variant of Add that signals the collector's cancellation when the limit is
\* reached.
CollectorAddCancelOnLimit(errs, processed, e) ==
    IF LimitReached(errs)
    THEN [errors |-> errs, cancel |-> TRUE, ret |-> "limit"]
    ELSE LET appended == Append(errs, e)
         IN IF /\ config.AbortOnError
               /\ config.ErrorThreshold[1] > 0
               /\ RateExceeds(Len(appended), processed, config.ErrorThreshold)
            THEN [errors |-> appended, cancel |-> TRUE, ret |-> "threshold"]
            ELSE [errors |-> appended, cancel |-> FALSE, ret |-> "nil"]

\* Variant of Add whose append writes over the last entry, as an append that
\* raced with another one would.
CollectorAddOverwrite(errs, processed, e) ==
    IF LimitReached(errs)
    THEN [errors |-> errs, cancel |-> FALSE, ret |-> "limit"]
    ELSE LET appended == IF errs = <<>> THEN <<e>>
                         ELSE [errs EXCEPT ![Len(errs)] = e]
         IN IF /\ config.AbortOnError
               /\ config.ErrorThreshold[1] > 0
               /\ RateExceeds(Len(appended), processed, config.ErrorThreshold)
            THEN [errors |-> appended, cancel |-> TRUE, ret |-> "threshold"]
            ELSE [errors |-> appended, cancel |-> FALSE, ret |-> "nil"]

\* Collector.Add under c.mu: the new error list, whether c.cancel() is called
\* and the returned error.
CollectorAdd(errs, processed, e) ==
    IF LimitReached(errs)
    THEN [errors |-> errs, cancel |-> FALSE, ret |-> "limit"]
    ELSE LET appended == Append(errs, e)
         IN IF /\ config.AbortOnError
               /\ config.ErrorThreshold[1] > 0
               /\ RateExceeds(Len(appended), processed, config.ErrorThreshold)
            THEN [errors |-> appended, cancel |-> TRUE, ret |-> "threshold"]
            ELSE [errors |-> appended, cancel |-> FALSE, ret |-> "nil"]

\* Collector.AddWithCategory under c.mu: no threshold check.
CollectorAddWithCategory(errs, e) ==
    IF LimitReached(errs)
    THEN [errors |-> errs, cancel |-> FALSE, ret |-> "limit"]
    ELSE [errors |-> Append(errs, e), cancel |-> FALSE, ret |-> "nil"]

\* ------------------------------------------------------------------ Init
\* Sum of the row counts of the sources 1..n.
RECURSIVE TotalRows(_, _)
TotalRows(f, n) == IF n = 0 THEN 0 ELSE f[n] + TotalRows(f, n - 1)

\* A configuration accepted by validateConfig and a set of input files. The
\* reading tasks are interchangeable, so the files are listed by
\* non-decreasing row count.
\* A readable file with the reference header and n well-formed rows.
GoodFile(n) == [kind |-> "ok", header |-> HeaderRef, rows |-> [i \in 1..n |-> 2]]

InitConfig ==
    /\ \E w \in 1..MaxWorkers, b \in 1..MaxBuf, m \in 0..MaxErrCap, pol \in Policies :
          config = [Workers |-> w, BufferSize |-> b, MaxErrors |-> m,
                    ErrorThreshold |-> pol.ErrorThreshold,
                    AbortOnError |-> pol.AbortOnError,
                    HasHeader |-> TRUE, ValidateHeader |-> FALSE,
                    ErrorBufferSize |-> ErrorBufferSize]
    /\ files \in {f \in [Sources -> 0..MaxRows] :
                    /\ TotalRows(f, NumSources) <= MaxRecords
                    /\ \A s \in Sources : s > 1 => f[s - 1] <= f[s]}
    /\ csv = [s \in Sources |-> GoodFile(files[s])]

InitPipeline ==
    /\ runPc = "created"
    /\ runResult = "none"
    /\ ctxDone = FALSE
    /\ emittedAtCancel = [s \in Sources |-> 0]
    /\ srcPc = [s \in Sources |-> "idle"]
    /\ lineNumber = [s \in Sources |-> 0]
    /\ recordCh = <<>>
    /\ readerErrCh = <<>>
    /\ readerClosed = FALSE
    /\ commonHeader = <<>>
    /\ errsBy = [s \in Sources |-> <<>>]
    /\ emittedBy = [s \in Sources |-> 0]
    /\ sigPc = "none"
    /\ workerPool = FALSE
    /\ started = FALSE
    /\ poolCtxDone = FALSE
    /\ wpc = [w \in Workers |-> "none"]
    /\ wres = [w \in Workers |-> "none"]
    /\ outputCh = <<>>
    /\ errorCh = <<>>
    /\ poolClosed = FALSE
    /\ hrPc = "none"
    /\ hrRes = "none"
    /\ rePc = "none"
    /\ wePc = "none"
    /\ summary = [total |-> 0, success |-> 0, failed |-> 0, skipped |-> 0]
    /\ written = 0
    /\ errors = <<>>
    /\ totalProcessed = 0
    /\ colCtxDone = FALSE
    /\ stopPc = "idle"
    /\ emitted = 0
    /\ invoked = 0
    /\ produced = 0

\* NewSemaphore: a limit of zero or less becomes one; no slot is held.
NewSemaphore(limit) == [cap |-> IF limit <= 0 THEN 1 ELSE limit, len |-> 0]

InitSemaphore ==
    /\ semaphore = NewSemaphore(1)
    /\ semCtxDone = FALSE
    /\ semPc = [c \in 1..NumCallers |-> "idle"]
    /\ semOps = [c \in 1..NumCallers |-> 0]
    /\ semRet = [c \in 1..NumCallers |-> "none"]
    /\ acquires = 0
    /\ releases = 0
    /\ panicked = FALSE

\* No worker or finalizer goroutine exists before Start; no caller has called.
InitPoolHarness ==
    /\ pwPc = [t \in 1..(2 * MaxWorkers) |-> "none"]
    /\ pwRes = [t \in 1..(2 * MaxWorkers) |-> "none"]
    /\ wgCount = 0
    /\ finWaiting = 0
    /\ finalizers = 0
    /\ spawned = 0
    /\ poolCall = [c \in 1..NumCallers |->
                     [pc |-> "idle", i |-> 0, ops |-> 0, op |-> "none", ret |-> "none"]]
    /\ sentOnClosed = FALSE

\* A caller of the tracker that is not inside an update.
Idle == [op |-> "idle", status |-> "none"]

\* NewProgressTracker: all counters are zero; no caller is inside an update.
InitTracker ==
    /\ tracker = [processed |-> 0, success |-> 0, failed |-> 0, skipped |-> 0]
    /\ trackPc = [c \in 1..NumCallers |-> Idle]
    /\ trackOps = [c \in 1..NumCallers |-> 0]

\* NewCollector: errors is make([]ErrorEntry, 0), a slice of length and
\* capacity 0; no read has returned anything yet.
InitCopies ==
    /\ heap = <<>>
    /\ colErrors = [arr |-> 0, len |-> 0, cap |-> 0]
    /\ held = [kind |-> "none", val |-> <<>>, at |-> <<>>, reads |-> 0,
               changes |-> 0]

InitComponents ==
    /\ InitSemaphore /\ InitPoolHarness /\ entries = <<>>
    /\ InitTracker /\ InitCopies

InitHarness ==
    /\ callPc = [c \in 1..NumCallers |-> "idle"]
    /\ callOps = [c \in 1..NumCallers |-> 0]
    /\ mu = 0
    /\ addRet = "none"
    /\ InitComponents

Init == InitConfig /\ InitPipeline /\ InitHarness

\* ---------------------------------------------------------- Pipeline.Run
\* Run up to reader.Read(p.ctx): the signal goroutine is installed and one
\* reading goroutine per file is started.
RunBegin ==
    /\ runPc = "created"
    /\ runPc' = "reading"
    /\ sigPc' = "waiting"
    /\ srcPc' = [s \in Sources |-> "open"]
    /\ UNCHANGED <<runResult, workerPool, ctxDone, emittedAtCancel, lineNumber, recordCh,
                   readerErrCh, readerClosed, emitted, readerAux, stopPc>>
    /\ UNCHANGED <<constVars, poolVars, consumerVars, collectorVars, harnessVars>>

\* p.workerPool = worker.NewPool(...)
RunNewPool ==
    /\ runPc = "reading"
    /\ runPc' = "pool"
    /\ workerPool' = TRUE
    /\ UNCHANGED <<runResult, sigPc, ctxDone, emittedAtCancel, stopPc>>
    /\ UNCHANGED <<constVars, readerVars, poolVars, consumerVars, collectorVars,
                   harnessVars>>

\* Pool.Start on a fresh pool: started, workers and the finalizer spawned.
PoolStart ==
    /\ ~started
    /\ started' = TRUE
    /\ wpc' = [w \in Workers |-> "select"]

\* p.workerPool.Start() followed by the launch of the three consumers.
RunStartPool ==
    /\ runPc = "pool"
    /\ PoolStart
    /\ runPc' = "waiting"
    /\ hrPc' = "recv"
    /\ rePc' = "recv"
    /\ wePc' = "recv"
    /\ UNCHANGED <<runResult, workerPool, sigPc, ctxDone, emittedAtCancel, stopPc,
                   poolCtxDone, wres, outputCh, errorCh, poolClosed, invoked,
                   produced, hrRes, summary, written>>
    /\ UNCHANGED <<constVars, readerVars, collectorVars, harnessVars>>

\* Variant of the check that fails the run as soon as any error was recorded.
RunOutcomeAnyError == IF HasErrors THEN "aborted" ELSE "nil"

\* The check at the end of Run.
RunOutcome ==
    IF HasErrors /\ config.AbortOnError /\ ThresholdExceeded THEN "aborted" ELSE "nil"

\* wg.Wait() returns, finalize, return.
RunFinish ==
    /\ runPc = "waiting"
    /\ hrPc = "exit" /\ rePc = "exit" /\ wePc = "exit"
    /\ runPc' = "done"
    /\ runResult' = RunOutcome
    /\ UNCHANGED <<workerPool, sigPc, ctxDone, emittedAtCancel, stopPc>>
    /\ UNCHANGED <<constVars, readerVars, poolVars, consumerVars, collectorVars,
                   harnessVars>>

\* ------------------------------------------------- cancellation sources
\* p.cancel(): the first call cancels Pipeline.ctx, later calls do nothing.
Cancel == ctxDone' = TRUE

\* The goroutine of setupSignalHandling receives a signal: p.cancel(), and
\* the goroutine ends.
SignalReceived ==
    /\ sigPc = "waiting"
    /\ sigPc' = "exited"
    /\ Cancel
    /\ UNCHANGED <<runPc, runResult, workerPool, stopPc>>
    /\ UNCHANGED <<constVars, readerVars, poolVars, consumerVars, collectorVars,
                   harnessVars>>

Signal == SignalReceived /\ UNCHANGED emittedAtCancel

\* The same step, with the number of records each source has sent so far
\* recorded at the moment the signal cancels the context.
SignalObserved == SignalReceived /\ emittedAtCancel' = emittedBy

\* Pipeline.Stop, first statement: p.cancel().
StopCancel ==
    /\ stopPc = "idle"
    /\ runPc \in {"reading", "pool", "waiting"}
    /\ stopPc' = "cancelled"
    /\ Cancel
    /\ UNCHANGED <<runVars, emittedAtCancel>>
    /\ UNCHANGED <<constVars, readerVars, poolVars, consumerVars, collectorVars,
                   harnessVars>>

\* What the unsynchronised read of p.workerPool in Stop can return: Run
\* writes the field without any lock, so the caller of Stop may still see nil
\* after the write.
StopSeesPool == {workerPool, FALSE}

\* Pipeline.Stop: if p.workerPool != nil, Pool.Stop() cancels the pool's
\* context and Pool.Wait() follows; otherwise Stop returns.
StopPool ==
    /\ stopPc = "cancelled"
    /\ \E seen \in StopSeesPool :
          IF seen
          THEN /\ stopPc' = "waiting"
               /\ poolCtxDone' = TRUE
          ELSE /\ stopPc' = "returned"
               /\ UNCHANGED poolCtxDone
    /\ UNCHANGED <<runVars, ctxDone, emittedAtCancel, started, wpc, wres,
                   outputCh, errorCh, poolClosed, invoked, produced>>
    /\ UNCHANGED <<constVars, readerVars, consumerVars, collectorVars, harnessVars>>

\* Pool.wg counter is zero: no worker has been added that has not called Done.
WaitGroupZero == \A w \in Workers : wpc[w] \in {"none", "exited"}

\* Pool.Wait() inside StopAndWait returns, and with it Pipeline.Stop.
StopWait ==
    /\ stopPc = "waiting"
    /\ WaitGroupZero
    /\ stopPc' = "returned"
    /\ UNCHANGED <<runVars, ctxDone, emittedAtCancel>>
    /\ UNCHANGED <<constVars, readerVars, poolVars, consumerVars, collectorVars,
                   harnessVars>>

\* ------------------------------------------------------- reader goroutines
\* validateHeaders: "nil" or the error it returns. Field names of the model
\* are trimmed, lower-case and made of letters.
validateHeaders(headers) ==
    IF Len(headers) = 0 THEN "invalid csv"
    ELSE IF \E i \in 1..Len(headers) : headers[i] = "" THEN "empty header"
    ELSE IF \E i, j \in 1..Len(headers) : i < j /\ headers[i] = headers[j]
         THEN "duplicate header"
    ELSE "nil"

\* headersMatch
headersMatch(h1, h2) ==
    /\ Len(h1) = Len(h2)
    /\ \A i \in 1..Len(h1) : h1[i] = h2[i]

\* The number of fields csv.Reader requires of a record: FieldsPerRecord is
\* left at 0, so the first record read from the file (the header line when
\* there is one) sets it for all later records.
FieldsPerRecord(s) ==
    IF config.HasHeader THEN Len(csv[s].header) ELSE csv[s].rows[1]

\* Variant of the failure path of a reading task that reports the error and
\* goes on reading.
SourceFailGoesOn(s) ==
    /\ srcPc' = [srcPc EXCEPT ![s] = "loop"]
    /\ Len(readerErrCh) < NumSources
    /\ readerErrCh' = Append(readerErrCh, "read")
    /\ errsBy' = [errsBy EXCEPT ![s] = Append(@, "read")]

\* Variant of the row read that accepts any number of fields.
CsvReadUnchecked(s, i) == "nil"

\* csvReader.Read() on data row i of source s: "nil" or ErrFieldCount.
CsvRead(s, i) ==
    IF csv[s].rows[i] = FieldsPerRecord(s) THEN "nil" ELSE "wrong number of fields"

\* readFile up to the record loop: os.Open, the size check, the header line
\* and validateHeaders. "nil" or the error readFile returns.
ReadFileOpen(s) ==
    IF csv[s].kind = "missing" THEN "file not found"
    ELSE IF csv[s].kind = "empty" THEN "file is empty"
    ELSE IF config.HasHeader THEN validateHeaders(csv[s].header)
    ELSE "nil"

\* The headers readFile returns with a nil error.
HeadersOf(s) == IF config.HasHeader THEN csv[s].header ELSE <<>>

\* reader.Read: errCh := make(chan error, len(r.files))
ReaderErrChSend(s, op) ==
    /\ Len(readerErrCh) < ReaderErrChCap
    /\ readerErrCh' = Append(readerErrCh, op)
    /\ errsBy' = [errsBy EXCEPT ![s] = Append(@, op)]

\* The goroutine of Read after readFile returned an error:
\* errCh <- NewProcessingError("read", ...) and return.
SourceFail(s) ==
    /\ srcPc' = [srcPc EXCEPT ![s] = "done"]
    /\ ReaderErrChSend(s, "read")

readerFrame ==
    /\ UNCHANGED <<runVars, ctxDone, emittedAtCancel, stopPc>>
    /\ UNCHANGED <<constVars, poolVars, consumerVars, collectorVars, harnessVars>>

\* Start of the goroutine of one file: readFile opens the file and reads the
\* header line.
SourceOpen(s) ==
    /\ srcPc[s] = "open"
    /\ IF ReadFileOpen(s) # "nil"
       THEN SourceFail(s)
       ELSE /\ srcPc' = [srcPc EXCEPT ![s] = "loop"]
            /\ UNCHANGED <<readerErrCh, errsBy>>
    /\ UNCHANGED <<lineNumber, recordCh, readerClosed, emitted, commonHeader,
                   emittedBy>>
    /\ readerFrame

\* Variant of the context check that never sees the cancellation.
CtxCheckNever == FALSE
\* select { case <-ctx.Done(): return headers, ctx.Err(); default: }
CtxCheck == ctxDone

\* Top of the record loop of readFile: the non-blocking context check, then
\* csvReader.Read(): EOF ends the file (readFile returns and the goroutine
\* goes on to the header comparison when it is enabled), an error ends the
\* task, a row becomes a record to send.
SourceNext(s) ==
    /\ srcPc[s] = "loop"
    /\ IF CtxCheck
       THEN SourceFail(s) /\ UNCHANGED lineNumber
       ELSE IF lineNumber[s] = files[s]
            THEN /\ srcPc' = [srcPc EXCEPT ![s] =
                        IF config.ValidateHeader /\ config.HasHeader
                        THEN "validate" ELSE "done"]
                 /\ UNCHANGED <<lineNumber, readerErrCh, errsBy>>
            ELSE IF CsvRead(s, lineNumber[s] + 1) # "nil"
                 THEN SourceFail(s) /\ UNCHANGED lineNumber
                 ELSE /\ srcPc' = [srcPc EXCEPT ![s] = "send"]
                      /\ lineNumber' = [lineNumber EXCEPT ![s] = @ + 1]
                      /\ UNCHANGED <<readerErrCh, errsBy>>
    /\ UNCHANGED <<recordCh, readerClosed, emitted, commonHeader, emittedBy>>
    /\ readerFrame

\* Variant of the send that puts the record at the head of the stream.
SourceSendFront(s) ==
    /\ srcPc[s] = "send"
    /\ Len(recordCh) < RecordChCap
    /\ recordCh' = <<(<<s, lineNumber[s]>>)>> \o recordCh
    /\ emitted' = emitted + 1
    /\ emittedBy' = [emittedBy EXCEPT ![s] = @ + 1]
    /\ srcPc' = [srcPc EXCEPT ![s] = "loop"]
    /\ UNCHANGED <<lineNumber, readerErrCh, readerClosed, commonHeader, errsBy>>
    /\ readerFrame

\* Variant of the send that does not block on a full stream: the oldest
\* record in the stream is overwritten.
SourceSendOverwrite(s) ==
    /\ srcPc[s] = "send"
    /\ recordCh' = IF Len(recordCh) < RecordChCap
                    THEN Append(recordCh, <<s, lineNumber[s]>>)
                    ELSE Append(Tail(recordCh), <<s, lineNumber[s]>>)
    /\ emitted' = emitted + 1
    /\ emittedBy' = [emittedBy EXCEPT ![s] = @ + 1]
    /\ srcPc' = [srcPc EXCEPT ![s] = "loop"]
    /\ UNCHANGED <<lineNumber, readerErrCh, readerClosed, commonHeader, errsBy>>
    /\ readerFrame

\* The select of readFile that sends the record: the send case.
SourceSend(s) ==
    /\ srcPc[s] = "send"
    /\ Len(recordCh) < RecordChCap
    /\ recordCh' = Append(recordCh, <<s, lineNumber[s]>>)
    /\ emitted' = emitted + 1
    /\ emittedBy' = [emittedBy EXCEPT ![s] = @ + 1]
    /\ srcPc' = [srcPc EXCEPT ![s] = "loop"]
    /\ UNCHANGED <<lineNumber, readerErrCh, readerClosed, commonHeader, errsBy>>
    /\ readerFrame

\* Variant of the send select without the ctx.Done() case.
SourceSendUncancellable(s) ==
    /\ FALSE
    /\ UNCHANGED vars

\* The select of readFile that sends the record: the ctx.Done() case.
SourceSendCancelled(s) ==
    /\ srcPc[s] = "send"
    /\ ctxDone
    /\ SourceFail(s)
    /\ UNCHANGED <<lineNumber, recordCh, readerClosed, emitted, commonHeader,
                   emittedBy>>
    /\ readerFrame

\* The goroutine of Read after readFile returned without error, with header
\* validation enabled: under headerMu, the first header to arrive becomes
\* commonHeader, a later one that does not match it is reported on errCh.
SourceValidate(s) ==
    /\ srcPc[s] = "validate"
    /\ srcPc' = [srcPc EXCEPT ![s] = "done"]
    /\ IF commonHeader = <<>>
       THEN /\ commonHeader' = HeadersOf(s)
            /\ UNCHANGED <<readerErrCh, errsBy>>
       ELSE IF ~headersMatch(commonHeader, HeadersOf(s))
            THEN /\ ReaderErrChSend(s, "validate_header")
                 /\ UNCHANGED commonHeader
            ELSE UNCHANGED <<commonHeader, readerErrCh, errsBy>>
    /\ UNCHANGED <<lineNumber, recordCh, readerClosed, emitted, emittedBy>>
    /\ readerFrame

\* Variant of the closing goroutine that does not wait for every task.
ReaderCloseEarly ==
    /\ ~readerClosed
    /\ \E s \in Sources : srcPc[s] = "done"
    /\ readerClosed' = TRUE
    /\ UNCHANGED <<srcPc, lineNumber, recordCh, readerErrCh, emitted, readerAux>>
    /\ readerFrame

\* The closing goroutine of Read: wg.Wait(), close(recordCh), close(errCh).
ReaderClose ==
    /\ ~readerClosed
    /\ \A s \in Sources : srcPc[s] = "done"
    /\ readerClosed' = TRUE
    /\ UNCHANGED <<srcPc, lineNumber, recordCh, readerErrCh, emitted, readerAux>>
    /\ readerFrame

\* ------------------------------------------------------------ Pool.worker
workerFrame ==
    /\ UNCHANGED <<started, poolCtxDone, poolClosed>>
    /\ UNCHANGED <<runVars, ctxDone, emittedAtCancel, stopPc>>
    /\ UNCHANGED <<constVars, consumerVars, collectorVars, harnessVars>>

\* The Result that processRecord returns for an outcome of the processor: an
\* error becomes a Failed Result carrying it.
ResultOf(o) == IF o = "ERROR" THEN StatusFailed ELSE o

\* Variant of the send on errorCh that puts the error in the channel even
\* when the channel is full.
ErrorChSendAlways(ch, e) == Append(ch, e)

\* The non-blocking send of processRecord on errorCh: the default case drops
\* the error when the channel is full.
ErrorChSend(ch, e) == IF Len(ch) < ErrorChCap THEN Append(ch, e) ELSE ch

\* The select of the worker loop: the pool's ctx.Done() case.
WorkerCancelled(w) ==
    /\ wpc[w] = "select"
    /\ poolCtxDone
    /\ wpc' = [wpc EXCEPT ![w] = "exited"]
    /\ UNCHANGED <<wres, outputCh, errorCh, invoked, produced>>
    /\ UNCHANGED readerVars
    /\ workerFrame

\* Variant of the worker loop that also leaves when the input channel is
\* merely empty.
WorkerInputEmpty(w) ==
    /\ wpc[w] = "select"
    /\ recordCh = <<>>
    /\ wpc' = [wpc EXCEPT ![w] = "exited"]
    /\ UNCHANGED <<wres, outputCh, errorCh, invoked, produced>>
    /\ UNCHANGED readerVars
    /\ workerFrame

\* The select of the worker loop: the input channel is closed and drained.
WorkerInputClosed(w) ==
    /\ wpc[w] = "select"
    /\ recordCh = <<>>
    /\ readerClosed
    /\ wpc' = [wpc EXCEPT ![w] = "exited"]
    /\ UNCHANGED <<wres, outputCh, errorCh, invoked, produced>>
    /\ UNCHANGED readerVars
    /\ workerFrame

\* Variant of the receive that leaves the record in the channel.
WorkerReceivePeek(w) ==
    /\ wpc[w] = "select"
    /\ recordCh # <<>>
    /\ invoked' = invoked + 1
    /\ \E o \in Outcomes :
          /\ wres' = [wres EXCEPT ![w] = ResultOf(o)]
          /\ errorCh' = IF o = "ERROR" THEN ErrorChSend(errorCh, "worker") ELSE errorCh
    /\ wpc' = [wpc EXCEPT ![w] = "send"]
    /\ UNCHANGED <<outputCh, produced>>
    /\ UNCHANGED readerVars
    /\ workerFrame

\* The select of the worker loop: a record is received and processRecord
\* runs on it: the processor returns, a returned error goes to errorCh unless
\* it is full; the worker then holds the Result to send.
WorkerReceive(w) ==
    /\ wpc[w] = "select"
    /\ recordCh # <<>>
    /\ recordCh' = Tail(recordCh)
    /\ invoked' = invoked + 1
    /\ \E o \in Outcomes :
          /\ wres' = [wres EXCEPT ![w] = ResultOf(o)]
          /\ errorCh' = IF o = "ERROR" THEN ErrorChSend(errorCh, "worker") ELSE errorCh
    /\ wpc' = [wpc EXCEPT ![w] = "send"]
    /\ UNCHANGED <<outputCh, produced>>
    /\ UNCHANGED <<srcPc, lineNumber, readerErrCh, readerClosed, emitted,
                   readerAux>>
    /\ workerFrame

\* Variant of the send that does not block: a Result that finds the output
\* channel full is dropped.
WorkerSendDrop(w) ==
    /\ wpc[w] = "send"
    /\ IF Len(outputCh) < OutputChCap
       THEN /\ outputCh' = Append(outputCh, wres[w])
            /\ produced' = produced + 1
       ELSE UNCHANGED <<outputCh, produced>>
    /\ wres' = [wres EXCEPT ![w] = "none"]
    /\ wpc' = [wpc EXCEPT ![w] = "select"]
    /\ UNCHANGED <<errorCh, invoked>>
    /\ UNCHANGED readerVars
    /\ workerFrame

\* The select that sends the Result: the send case.
WorkerSend(w) ==
    /\ wpc[w] = "send"
    /\ Len(outputCh) < OutputChCap
    /\ outputCh' = Append(outputCh, wres[w])
    /\ produced' = produced + 1
    /\ wres' = [wres EXCEPT ![w] = "none"]
    /\ wpc' = [wpc EXCEPT ![w] = "select"]
    /\ UNCHANGED <<errorCh, invoked>>
    /\ UNCHANGED readerVars
    /\ workerFrame

\* The select that sends the Result: the pool's ctx.Done() case.
WorkerSendCancelled(w) ==
    /\ wpc[w] = "send"
    /\ poolCtxDone
    /\ wres' = [wres EXCEPT ![w] = "none"]
    /\ wpc' = [wpc EXCEPT ![w] = "exited"]
    /\ UNCHANGED <<outputCh, errorCh, invoked, produced>>
    /\ UNCHANGED readerVars
    /\ workerFrame

\* The finalizer goroutine of Start: wg.Wait(), close(outputCh), close(errorCh).
PoolClose ==
    /\ started
    /\ ~poolClosed
    /\ \A w \in Workers : wpc[w] = "exited"
    /\ poolClosed' = TRUE
    /\ UNCHANGED <<started, poolCtxDone, wpc, wres, outputCh, errorCh, invoked,
                   produced>>
    /\ UNCHANGED <<runVars, ctxDone, emittedAtCancel, stopPc>>
    /\ UNCHANGED <<constVars, readerVars, consumerVars, collectorVars, harnessVars>>

\* ------------------------------------------------ Pipeline.handleResults
hrFrame ==
    /\ UNCHANGED <<runVars, stopPc, rePc, wePc>>
    /\ UNCHANGED <<constVars, readerVars, harnessVars>>
    /\ UNCHANGED <<started, poolCtxDone, wpc, wres, errorCh, poolClosed, invoked,
                   produced>>

\* range over Results(): the channel is closed and drained.
HandleResultsClosed ==
    /\ hrPc = "recv"
    /\ outputCh = <<>>
    /\ poolClosed
    /\ hrPc' = "exit"
    /\ UNCHANGED <<hrRes, outputCh, summary, written, ctxDone, emittedAtCancel, collectorVars>>
    /\ hrFrame

\* Summary.AddResult, first atomic add (p.mu is held from here to the end of
\* AddResult).
AddResultTotal(s) == [s EXCEPT !.total = @ + 1]

\* Summary.AddResult, the switch on result.Status.
AddResultStatus(s, status) ==
    CASE status = StatusSuccess -> [s EXCEPT !.success = @ + 1]
      [] status = StatusFailed -> [s EXCEPT !.failed = @ + 1]
      [] status = StatusSkipped -> [s EXCEPT !.skipped = @ + 1]
      [] OTHER -> s

\* range over Results(): the next Result is received, p.mu is taken and
\* AddResult makes its first atomic add.
HandleResultsRecv ==
    /\ hrPc = "recv"
    /\ outputCh # <<>>
    /\ hrRes' = Head(outputCh)
    /\ outputCh' = Tail(outputCh)
    /\ summary' = AddResultTotal(summary)
    /\ hrPc' = "status"
    /\ UNCHANGED <<written, ctxDone, emittedAtCancel, collectorVars>>
    /\ hrFrame

\* End of AddResult and p.mu.Unlock(); a Failed Result (which carries its
\* error) goes to the collector next.
HandleResultsAddStatus ==
    /\ hrPc = "status"
    /\ summary' = AddResultStatus(summary, hrRes)
    /\ hrPc' = IF hrRes = StatusFailed THEN "collect" ELSE "incr"
    /\ UNCHANGED <<hrRes, outputCh, written, ctxDone, emittedAtCancel, collectorVars>>
    /\ hrFrame

\* A call of Collector.Add by one of the three consumers; the returned error
\* is discarded by all of them.
ConsumerAdd(e) ==
    LET a == CollectorAdd(errors, totalProcessed, e)
    IN /\ errors' = a.errors
       /\ colCtxDone' = (colCtxDone \/ a.cancel)
       /\ UNCHANGED totalProcessed

\* _ = p.errorCol.Add(result.Error, result.Record)
HandleResultsCollect ==
    /\ hrPc = "collect"
    /\ ConsumerAdd("record")
    /\ hrPc' = "incr"
    /\ UNCHANGED <<hrRes, outputCh, summary, written, ctxDone, emittedAtCancel>>
    /\ hrFrame

\* Variant of IncrementProcessed that counts a Result twice.
IncrementProcessedTwice == totalProcessed' = totalProcessed + 2

\* Collector.IncrementProcessed
IncrementProcessed == totalProcessed' = totalProcessed + 1

HandleResultsIncrement ==
    /\ hrPc = "incr"
    /\ IncrementProcessed
    /\ hrPc' = "check"
    /\ UNCHANGED <<hrRes, outputCh, summary, written, ctxDone, emittedAtCancel, errors, colCtxDone>>
    /\ hrFrame

\* Pipeline.writeOutput with an OutputWriter configured: one line for the
\* Result's record.
writeOutput(w) == w + 1

\* The select on p.errorCol.Context().Done(): p.cancel() and return, or the
\* default case, the line written for a successful Result and the next
\* iteration.
HandleResultsCheck ==
    /\ hrPc = "check"
    /\ IF colCtxDone
       THEN /\ Cancel
            /\ hrPc' = "exit"
            /\ UNCHANGED written
       ELSE /\ hrPc' = "recv"
            /\ written' = IF hrRes = StatusSuccess
                          THEN writeOutput(written) ELSE written
            /\ UNCHANGED ctxDone
    /\ UNCHANGED emittedAtCancel
    /\ hrRes' = "none"
    /\ UNCHANGED <<outputCh, summary, collectorVars>>
    /\ hrFrame

\* Pipeline.Summary(): returns the pointer to the live Summary under p.mu; the
\* caller reads the counters afterwards with atomic loads, so what it can
\* observe is the Summary of any later state.
PipelineSummary == summary

\* ------------------------------ handleReaderErrors / handleWorkerErrors
\* One iteration of handleReaderErrors: receive and p.errorCol.Add(err, nil).
HandleReaderErrors ==
    /\ rePc = "recv"
    /\ readerErrCh # <<>>
    /\ readerErrCh' = Tail(readerErrCh)
    /\ ConsumerAdd(Head(readerErrCh))
    /\ UNCHANGED <<srcPc, lineNumber, recordCh, readerClosed, emitted, readerAux>>
    /\ UNCHANGED <<runVars, ctxDone, emittedAtCancel, stopPc>>
    /\ UNCHANGED <<constVars, poolVars, consumerVars, harnessVars>>

HandleReaderErrorsClosed ==
    /\ rePc = "recv"
    /\ readerErrCh = <<>>
    /\ readerClosed
    /\ rePc' = "exit"
    /\ UNCHANGED <<hrPc, hrRes, wePc, summary, written>>
    /\ UNCHANGED <<runVars, ctxDone, emittedAtCancel, stopPc>>
    /\ UNCHANGED <<constVars, readerVars, poolVars, collectorVars, harnessVars>>

\* One iteration of handleWorkerErrors: receive and p.errorCol.Add(err, nil).
HandleWorkerErrors ==
    /\ wePc = "recv"
    /\ errorCh # <<>>
    /\ errorCh' = Tail(errorCh)
    /\ ConsumerAdd(Head(errorCh))
    /\ UNCHANGED <<started, poolCtxDone, wpc, wres, outputCh, poolClosed, invoked,
                   produced>>
    /\ UNCHANGED <<runVars, ctxDone, emittedAtCancel, stopPc>>
    /\ UNCHANGED <<constVars, readerVars, consumerVars, harnessVars>>

HandleWorkerErrorsClosed ==
    /\ wePc = "recv"
    /\ errorCh = <<>>
    /\ poolClosed
    /\ wePc' = "exit"
    /\ UNCHANGED <<hrPc, hrRes, rePc, summary, written>>
    /\ UNCHANGED <<runVars, ctxDone, emittedAtCancel, stopPc>>
    /\ UNCHANGED <<constVars, readerVars, poolVars, collectorVars, harnessVars>>

\* ------------------------------------------------------- the pipeline run
Reader ==
    \/ \E s \in Sources : SourceOpen(s)
    \/ \E s \in Sources : SourceNext(s)
    \/ \E s \in Sources : SourceSend(s)
    \/ \E s \in Sources : SourceSendCancelled(s)
    \/ ReaderClose

Pool ==
    \/ \E w \in Workers : WorkerReceive(w)
    \/ \E w \in Workers : WorkerInputClosed(w)
    \/ \E w \in Workers : WorkerSend(w)
    \/ PoolClose

\* The ctx.Done() cases of the worker's two selects. They wait on the pool's
\* own context, which only Pool.Stop() cancels.
PoolCancelled ==
    \/ \E w \in Workers : WorkerCancelled(w)
    \/ \E w \in Workers : WorkerSendCancelled(w)

\* The header comparison at the end of a reading task, reached only with
\* header validation enabled.
SourceValidation == \E s \in Sources : SourceValidate(s)

Consumers ==
    \/ HandleResultsRecv
    \/ HandleResultsClosed
    \/ HandleResultsAddStatus
    \/ HandleResultsCollect
    \/ HandleResultsIncrement
    \/ HandleResultsCheck
    \/ HandleReaderErrors
    \/ HandleReaderErrorsClosed
    \/ HandleWorkerErrors
    \/ HandleWorkerErrorsClosed

Orchestrator ==
    \/ RunBegin
    \/ RunNewPool
    \/ RunStartPool
    \/ RunFinish

\* Every step the program can take by itself once Run has been called, as
\* long as nobody calls Stop().
Progress == Orchestrator \/ Reader \/ Pool \/ Consumers

\* A concurrent call of Pipeline.Stop().
Stop ==
    \/ StopCancel
    \/ StopPool
    \/ StopWait

\* A pipeline run left to itself: the only cancellation is the one the
\* results consumer triggers after a threshold breach.
Next == Progress

Spec == Init /\ [][Next]_vars

\* ------------------------------------------- runs with external cancellation
\* Runs during which Pipeline.Stop() is called from another goroutine and an
\* OS signal may arrive, on small inputs under the default error policy.
InitCancel ==
    /\ Init
    /\ config.MaxErrors = 0
    /\ ~config.AbortOnError
    /\ \A s \in Sources : files[s] <= MaxStopRows
    /\ config.BufferSize <= MaxStopBuf

NextCancel == Progress \/ PoolCancelled \/ Signal \/ Stop

SpecCancel == InitCancel /\ [][NextCancel]_vars

\* ---------------------------------------------- runs over faulty sources
\* Rows of a file, each given by its field count.
RowSeqs == UNION {[1..n -> FieldCounts] : n \in 0..MaxRows}

\* The files of these runs: a file that cannot be opened or is empty; a
\* file whose header validateHeaders rejects; a file with a header other
\* than the reference one and well-formed rows; a file with the reference
\* header and rows of which any may have a field missing.
FileDescriptions ==
    {d \in [kind : FileKinds, header : Headers, rows : RowSeqs] :
        /\ d.kind # "ok" => (d.header = HeaderRef /\ d.rows = <<>>)
        /\ d.header = HeaderDuplicate => Len(d.rows) <= MaxBadHeaderRows
        /\ d.header # HeaderRef => \A i \in 1..Len(d.rows) : d.rows[i] = Len(d.header)}

\* One worker behind one-slot buffers, no error cap, both error policies,
\* header validation on or off, and two files with at most MaxFaultRows rows
\* in all, at least one of them a good file.
InitSources ==
    /\ \E pol \in Policies, hv \in {<<TRUE, TRUE>>, <<TRUE, FALSE>>, <<FALSE, TRUE>>} :
          config = [Workers |-> 1, BufferSize |-> 1, MaxErrors |-> 0,
                    ErrorThreshold |-> pol.ErrorThreshold,
                    AbortOnError |-> pol.AbortOnError,
                    HasHeader |-> hv[1], ValidateHeader |-> hv[2],
                    ErrorBufferSize |-> ErrorBufferSize]
    /\ csv \in [Sources -> FileDescriptions]
    /\ ~config.HasHeader => \A s \in Sources : csv[s].header = HeaderRef
    /\ files = [s \in Sources |-> Len(csv[s].rows)]
    /\ TotalRows(files, NumSources) <= MaxFaultRows
    /\ \E s \in Sources : csv[s] = GoodFile(files[s])
    /\ InitPipeline
    /\ InitHarness

NextSources == Progress \/ SourceValidation

SpecSources == InitSources /\ [][NextSources]_vars

\* ------------------------------------- the reader under cancellation
\* Runs over two good files with header validation, under the default error
\* policy, during which an OS signal may cancel the pipeline's context at any
\* moment.
InitReaderCancel ==
    /\ InitSources
    /\ ~config.AbortOnError
    /\ config.HasHeader /\ config.ValidateHeader
    /\ \A s \in Sources : csv[s] = GoodFile(files[s])

\* Every step of the reading task of source s.
SourceTask(s) ==
    \/ SourceOpen(s)
    \/ SourceNext(s)
    \/ SourceSend(s)
    \/ SourceSendCancelled(s)
    \/ SourceValidate(s)

NextReaderCancel == NextSources \/ SignalObserved

\* The Go scheduler runs every goroutine that can take a step: the reading
\* tasks and the reader's closing goroutine. Nothing is assumed about the
\* consumers of the two streams.
FairReader ==
    /\ \A s \in Sources : WF_vars(SourceTask(s))
    /\ WF_vars(ReaderClose)

SpecReaderCancel == InitReaderCancel /\ [][NextReaderCancel]_vars /\ FairReader

\* =================================================================== claims
\* The collector has signalled its cancellation scope in a run with
\* abort-on-threshold enabled: the error threshold has been breached.
Breached == config.AbortOnError /\ colCtxDone

\* Number of data rows read so far by all reading tasks.
RowsRead == TotalRows(lineNumber, NumSources)

\* C1: in a run with abort-on-threshold enabled, once the threshold is
\* breached Run() goes on to return without Stop(): in every state after the
\* breach either Run() has returned or some goroutine of the run can still
\* take a step (no state is stuck short of the return).
C1_RunReturnsAfterBreach == Breached => (runPc = "done" \/ ENABLED Progress)

\* C2: once the pipeline's cancellation scope is triggered no worker begins
\* processing a new record: no step taken while the scope is cancelled
\* starts a call of the processor.
C2_NoProcessingAfterCancel == [][ctxDone => invoked' = invoked]_vars

\* C3: in every state observable through Pipeline.Summary(),
\* success + failed + skipped = total.
C3_SummaryBalanced ==
    PipelineSummary.success + PipelineSummary.failed + PipelineSummary.skipped
        = PipelineSummary.total

\* C4: when Run() returns from a run in which no cancellation was triggered,
\* the Summary total equals the number of records read across all sources,
\* which are all the rows of all the files.
C4_TotalEqualsRecordsRead ==
    (runPc = "done" /\ ~ctxDone) =>
        /\ PipelineSummary.total = RowsRead
        /\ RowsRead = TotalRows(files, NumSources)

\* C4 witness: a run without cancellation over two non-empty sources with
\* two workers has returned with every record counted.
C4_Witness ==
    /\ runPc = "done" /\ ~ctxDone
    /\ config.Workers = 2
    /\ \A s \in Sources : files[s] > 0
    /\ PipelineSummary.total = MaxRecords

\* C5: a pool whose input delivered N records and was closed, with no Stop(),
\* closes its result stream only after it has emitted exactly N Results, for
\* every worker count and output buffer size.
C5_PoolEmitsAllThenCloses ==
    poolClosed => (readerClosed /\ recordCh = <<>> /\ produced = emitted)

\* C5 witness: two workers behind a one-slot output buffer have emitted
\* MaxRecords Results and the result stream is closed.
C5_Witness ==
    /\ poolClosed
    /\ config.Workers = 2 /\ config.BufferSize = 1
    /\ produced = MaxRecords

\* C6: the processor is called at most once per record emitted by the reader
\* and every call yields at most one Result.
C6_AtMostOnce == invoked <= emitted /\ produced <= invoked

\* C6 witness: after a cancellation, a record that was processed has had its
\* Result withheld while another went out.
C6_Witness ==
    /\ ctxDone
    /\ config.Workers = 2
    /\ invoked = MaxRecords
    /\ produced = MaxRecords - 1
    /\ \E w \in Workers : wpc[w] = "send"

\* C7: if the error rate strictly exceeded the threshold during a run with
\* abort-on-threshold enabled (the collector signalled its cancellation),
\* Run() returns the aborted error.
C7_BreachAborts == (runPc = "done" /\ Breached) => runResult = "aborted"

\* C9: when the collector has reached its maximum error count during a run,
\* the pipeline's cancellation scope is triggered (stated on the finished run).
C9_LimitCancels == (runPc = "done" /\ LimitReached(errors)) => ctxDone

\* C9 amended: reaching the maximum error count cancels nothing. The
\* collector's scope is signalled only by an Add that was not refused for the
\* limit and left the error rate strictly above the threshold with
\* abort-on-threshold enabled, and the results consumer cancels the
\* pipeline's scope only after the collector's scope was signalled.
C9_OnlyThresholdCancels ==
    /\ [][(colCtxDone' /\ ~colCtxDone) =>
            /\ ~LimitReached(errors)
            /\ Len(errors') = Len(errors) + 1
            /\ config.AbortOnError
            /\ RateExceeds(Len(errors'), totalProcessed, config.ErrorThreshold)]_vars
    /\ [][(ctxDone' /\ ~ctxDone) => colCtxDone]_vars

\* C9 witness: a run has returned with the limit reached and a failed Result
\* whose error was refused, and nothing was cancelled.
C9_Witness ==
    /\ runPc = "done"
    /\ LimitReached(errors)
    /\ PipelineSummary.failed > Len(errors)
    /\ ~ctxDone /\ ~colCtxDone

C11_NoTaskOutlivesRun ==
    runPc = "done" =>
        /\ \A s \in Sources : srcPc[s] = "done"
        /\ readerClosed
        /\ \A w \in Workers : wpc[w] = "exited"
        /\ poolClosed
        /\ hrPc = "exit" /\ rePc = "exit" /\ wePc = "exit"
        /\ sigPc # "waiting"

\* Number of entries of a sequence that belong to a set.
Count(seq, set) == Cardinality({i \in 1..Len(seq) : seq[i] \in set})

\* Number of errors the reading tasks have sent on the reader's error stream.
RECURSIVE ReaderErrorsSent(_)
ReaderErrorsSent(n) == IF n = 0 THEN 0 ELSE Len(errsBy[n]) + ReaderErrorsSent(n - 1)

Readable(s) ==
    /\ csv[s].kind = "ok"
    /\ config.HasHeader => validateHeaders(csv[s].header) = "nil"
    /\ \A i \in 1..files[s] :
          csv[s].rows[i] = (IF config.HasHeader THEN Len(csv[s].header)
                            ELSE csv[s].rows[1])

\* The reader has finished without any cancellation.
ReaderFinished == readerClosed /\ ~ctxDone

\* C14: header validation enabled, two readable sources, reading finished.
\* Identical headers give no header-mismatch error. Headers that differ (in a
\* field name or in field order) give exactly one header-mismatch error, sent
\* by the second source of the file list, and every record of the first
\* source was emitted.
C14_MismatchOnSecondSource ==
    (/\ config.HasHeader /\ config.ValidateHeader
     /\ \A s \in Sources : Readable(s)
     /\ ReaderFinished)
    => IF csv[1].header = csv[2].header
       THEN \A s \in Sources : errsBy[s] = <<>>
       ELSE /\ errsBy[1] = <<>>
            /\ errsBy[2] = <<"validate_header">>
            /\ emittedBy[1] = files[1]

\* C15: with header validation enabled, a source that gets the
\* header-mismatch error has emitted no data record.
C15_MismatchHaltsReading ==
    (config.HasHeader /\ config.ValidateHeader) =>
        \A s \in Sources :
            Count(errsBy[s], {"validate_header"}) > 0 => emittedBy[s] = 0

\* Index of the first row of source s that csv.Reader rejects for its field
\* count, 0 if there is none.
FirstBadRow(s) ==
    LET want == IF config.HasHeader THEN Len(csv[s].header) ELSE csv[s].rows[1]
        bad == {i \in 1..files[s] : csv[s].rows[i] # want}
    IN IF bad = {} THEN 0 ELSE CHOOSE i \in bad : \A j \in bad : i <= j

\* Source s fails before its first data row: it cannot be opened, is empty or
\* has an invalid header.
FailsAtOpen(s) ==
    \/ csv[s].kind # "ok"
    \/ config.HasHeader /\ validateHeaders(csv[s].header) # "nil"

\* C16: no source task ever sends more than one error or a record past its
\* failure point; when reading has finished without cancellation a failed
\* source has sent exactly one error and the records before its failure
\* point, and a source that did not fail has sent all of its records.
C16_SourceFailureIsLocal ==
    \A s \in Sources :
        /\ Len(errsBy[s]) <= 1
        /\ FailsAtOpen(s) => emittedBy[s] = 0
        /\ (~FailsAtOpen(s) /\ FirstBadRow(s) > 0) => emittedBy[s] < FirstBadRow(s)
        /\ ReaderFinished =>
              IF FailsAtOpen(s) THEN errsBy[s] = <<"read">>
              ELSE IF FirstBadRow(s) > 0
                   THEN /\ errsBy[s] = <<"read">>
                        /\ emittedBy[s] = FirstBadRow(s) - 1
                   ELSE /\ emittedBy[s] = files[s]
                        /\ Count(errsBy[s], {"read"}) = 0

\* C16 witness: reading has finished without cancellation, one source failed
\* with one error and the other emitted its only record.
C16_Witness ==
    /\ ReaderFinished
    /\ \E s, o \in Sources :
          /\ s # o
          /\ ~Readable(s)
          /\ errsBy[s] = <<"read">>
          /\ files[o] > 0 /\ emittedBy[o] = files[o]

\* Field count of a record on the record stream.
FieldCount(record) == csv[record[1]].rows[record[2]]

\* C17: with a header, every record on its way to the workers has exactly as
\* many fields as the header of its source, and so has every record a worker
\* takes.
C17_FieldCountMatchesHeader ==
    /\ [](config.HasHeader =>
            \A i \in 1..Len(recordCh) :
                FieldCount(recordCh[i]) = Len(csv[recordCh[i][1]].header))
    /\ [][(config.HasHeader /\ invoked' = invoked + 1) =>
            FieldCount(Head(recordCh)) = Len(csv[Head(recordCh)[1]].header)]_vars

\* C17 witness: a source with a header has had its second row rejected for
\* its field count after a worker took its first row.
C17_Witness ==
    /\ config.HasHeader
    /\ invoked = 1
    /\ \E s \in Sources :
          /\ FirstBadRow(s) = 2
          /\ emittedBy[s] = 1
          /\ errsBy[s] = <<"read">>

\* C18: a run over files that open and have valid headers, some of whose
\* rows miss a field, ends without cancellation with one Result per row of
\* the files, well-formed or malformed.
C18_EveryRowYieldsResult ==
    (/\ runPc = "done" /\ ~ctxDone
     /\ \A s \in Sources : ~FailsAtOpen(s))
    => PipelineSummary.total = TotalRows(files, NumSources)

\* C19: the reader's two streams are closed only after every reading task
\* has finished and stay closed, and once they are closed no task sends a
\* record or an error, with or without cancellation.
C19_CloseAfterAllTasks ==
    /\ [](readerClosed => \A s \in Sources : srcPc[s] = "done")
    /\ [][readerClosed =>
            /\ readerClosed'
            /\ emitted' = emitted /\ emittedBy' = emittedBy
            /\ errsBy' = errsBy
            /\ Len(recordCh') <= Len(recordCh)
            /\ Len(readerErrCh') <= Len(readerErrCh)]_vars

\* C19 witness: the streams are closed after a signal cancelled one task in
\* its send while the other had ended normally.
C19_Witness ==
    /\ readerClosed
    /\ sigPc = "exited"
    /\ \E s, o \in Sources :
          /\ errsBy[s] = <<"read">> /\ lineNumber[s] > emittedBy[s]
          /\ errsBy[o] = <<>>

\* All reading tasks have ended and the reader's streams are closed.
ReaderDone == readerClosed /\ \A s \in Sources : srcPc[s] = "done"

\* C20: once the pipeline's context is cancelled, every reading task ends
\* and both streams get closed, whatever the consumers of the streams do.
C20_CancelledReaderCloses == ctxDone ~> ReaderDone

\* C20 witness: the reader has closed its streams after a cancellation while
\* the record stream was full, a task was blocked in its send and no consumer
\* of either stream had been started.
C20_Witness ==
    /\ ReaderDone
    /\ ctxDone
    /\ runPc = "reading"
    /\ Len(recordCh) = RecordChCap
    /\ \E s \in Sources : errsBy[s] = <<"read">> /\ lineNumber[s] > emittedBy[s]

\* C21: the records of one source are on the record stream in file order
\* (strictly increasing line numbers), and each record a source sends goes
\* to the tail of the stream with the line number that follows the one it
\* sent before.
C21_SourceOrderKept ==
    /\ [](\A i, j \in 1..Len(recordCh) :
            (i < j /\ recordCh[i][1] = recordCh[j][1])
                => recordCh[i][2] < recordCh[j][2])
    /\ [][\A s \in Sources :
            emittedBy'[s] = emittedBy[s] + 1
                => recordCh'[Len(recordCh')] = <<s, emittedBy[s] + 1>>]_vars

\* C21 witness: two records of one source are on the stream after the other
\* source has sent a record in between the start and now.
C21_Witness ==
    /\ Len(recordCh) = 2
    /\ recordCh[1][1] = recordCh[2][1]
    /\ \E o \in Sources : o # recordCh[1][1] /\ emittedBy[o] > 0

\* C22: the records sent by the source tasks and not yet taken by a worker
\* are exactly the records in the record stream, and these are never more
\* than the stream's capacity.
C22_InFlightBounded ==
    /\ Len(recordCh) <= RecordChCap
    /\ emitted - invoked = Len(recordCh)

\* C22 witness: the stream is full, a source task is blocked in its send with
\* a record in hand and a worker has already taken a record.
C22_Witness ==
    /\ Len(recordCh) = RecordChCap
    /\ \E s \in Sources : srcPc[s] = "send"
    /\ invoked > 0

\* --------------------------------------------- the collector on its own
\* NumCallers goroutines call Add, AddWithCategory and IncrementProcessed on
\* one Collector, at most MaxOps calls each; every method holds c.mu from its
\* first statement after the nil check to its return.
Callers == 1..NumCallers

InitCollector ==
    /\ \E m \in 0..MaxLimit, pol \in Policies :
          config = [Workers |-> 1, BufferSize |-> 1, MaxErrors |-> m,
                    ErrorThreshold |-> pol.ErrorThreshold,
                    AbortOnError |-> pol.AbortOnError,
                    HasHeader |-> TRUE, ValidateHeader |-> FALSE,
                    ErrorBufferSize |-> ErrorBufferSize]
    /\ files = [s \in Sources |-> 0]
    /\ csv = [s \in Sources |-> GoodFile(0)]
    /\ InitPipeline
    /\ InitHarness

pipelineVars == <<runVars, ctxDone, emittedAtCancel, stopPc, readerVars, poolVars, consumerVars>>

\* c.mu.Lock() at the start of a method call.
CallLock(c) ==
    /\ callPc[c] = "idle"
    /\ callOps[c] < MaxOps
    /\ mu = 0
    /\ mu' = c
    /\ \E op \in {"Add", "AddWithCategory", "IncrementProcessed"} :
          callPc' = [callPc EXCEPT ![c] = op]
    /\ callOps' = [callOps EXCEPT ![c] = @ + 1]
    /\ UNCHANGED <<addRet, constVars, collectorVars, pipelineVars, componentVars>>

\* Body of Collector.Add and the deferred unlock.
CallAdd(c) ==
    /\ callPc[c] = "Add"
    /\ LET a == CollectorAdd(errors, totalProcessed, "e")
       IN /\ errors' = a.errors
          /\ colCtxDone' = (colCtxDone \/ a.cancel)
          /\ addRet' = a.ret
    /\ mu' = 0
    /\ callPc' = [callPc EXCEPT ![c] = "idle"]
    /\ UNCHANGED <<totalProcessed, callOps, constVars, pipelineVars, componentVars>>

\* Body of Collector.AddWithCategory and the deferred unlock.
CallAddWithCategory(c) ==
    /\ callPc[c] = "AddWithCategory"
    /\ LET a == CollectorAddWithCategory(errors, "e")
       IN /\ errors' = a.errors
          /\ addRet' = a.ret
    /\ mu' = 0
    /\ callPc' = [callPc EXCEPT ![c] = "idle"]
    /\ UNCHANGED <<totalProcessed, colCtxDone, callOps, constVars, pipelineVars, componentVars>>

\* Body of Collector.IncrementProcessed and the deferred unlock.
CallIncrementProcessed(c) ==
    /\ callPc[c] = "IncrementProcessed"
    /\ IncrementProcessed
    /\ mu' = 0
    /\ callPc' = [callPc EXCEPT ![c] = "idle"]
    /\ UNCHANGED <<errors, colCtxDone, addRet, callOps, constVars, pipelineVars, componentVars>>

NextCollector ==
    \/ \E c \in Callers : CallLock(c)
    \/ \E c \in Callers : CallAdd(c)
    \/ \E c \in Callers : CallAddWithCategory(c)
    \/ \E c \in Callers : CallIncrementProcessed(c)

SpecCollector == InitCollector /\ [][NextCollector]_vars

\* C8: with maxErrors = k > 0 the collector never holds more than k entries,
\* and an Add or AddWithCategory made while k entries are held returns the
\* limit-reached error and appends nothing.
C8_StrictCap ==
    /\ [](config.MaxErrors > 0 => Len(errors) <= config.MaxErrors)
    /\ [][\A c \in Callers :
            (/\ callPc[c] \in {"Add", "AddWithCategory"}
             /\ callPc'[c] = "idle"
             /\ config.MaxErrors > 0
             /\ Len(errors) >= config.MaxErrors)
            => (errors' = errors /\ addRet' = "limit")]_vars

\* C8 witness: with a limit of two, two entries are held and a further add
\* has been refused.
C8_Witness ==
    /\ config.MaxErrors = MaxLimit
    /\ Len(errors) = MaxLimit
    /\ addRet = "limit"

\* C13: with abort-on-threshold enabled and a threshold t > 0, an Add that is
\* not refused for the limit returns the threshold error and signals the
\* collector's cancellation exactly when (entries held + 1) / processed > t,
\* with a processed count of 0 counting as rate 0; at a rate equal to t it
\* returns nil and signals nothing; a signalled cancellation stays
\* signalled.
C13_StrictThreshold ==
    /\ [][\A c \in Callers :
            (/\ callPc[c] = "Add"
             /\ callPc'[c] = "idle"
             /\ config.AbortOnError
             /\ config.ErrorThreshold[1] > 0
             /\ ~(config.MaxErrors > 0 /\ Len(errors) >= config.MaxErrors))
            => LET strictly ==
                     /\ totalProcessed > 0
                     /\ (Len(errors) + 1) * config.ErrorThreshold[2]
                           > config.ErrorThreshold[1] * totalProcessed
               IN /\ Len(errors') = Len(errors) + 1
                  /\ strictly => (addRet' = "threshold" /\ colCtxDone')
                  /\ ~strictly => (addRet' = "nil" /\ colCtxDone' = colCtxDone)]_vars
    /\ [][colCtxDone => colCtxDone']_vars

\* C13 witness: two of two processed records have an error entry, the last
\* Add returned the threshold error and the collector is cancelled.
C13_Witness ==
    /\ config.AbortOnError
    /\ Len(errors) = 2 /\ totalProcessed = 2
    /\ addRet = "threshold"
    /\ colCtxDone

\* C40: once the signal has cancelled Pipeline.ctx, no source task has sent
\* more than one record beyond those it had sent at the moment the signal was
\* received.
C40_AtMostOneAfterCancel ==
    sigPc = "exited" =>
        \A s \in Sources : emittedBy[s] <= emittedAtCancel[s] + 1

\* C40 witness: the signal has fired, a source task has sent one record
\* after it and has then terminated on the cancellation with rows unread,
\* while another task terminated without sending any further record.
C40_Witness ==
    /\ ctxDone /\ sigPc = "exited"
    /\ \E s \in Sources :
          /\ emittedBy[s] = emittedAtCancel[s] + 1
          /\ srcPc[s] = "done"
          /\ errsBy[s] = <<"read">>
    /\ \E s \in Sources :
          /\ emittedBy[s] = emittedAtCancel[s]
          /\ srcPc[s] = "done"
          /\ errsBy[s] = <<"read">>

\* Number of the callers 1..n that are inside a method of the collector.
RECURSIVE InCall(_)
InCall(n) ==
    IF n = 0 THEN 0
    ELSE (IF callPc[n] = "idle" THEN 0 ELSE 1) + InCall(n - 1)

\* Number of method calls the callers 1..n have begun.
RECURSIVE CallsBegun(_)
CallsBegun(n) == IF n = 0 THEN 0 ELSE callOps[n] + CallsBegun(n - 1)

\* C34: without a max-errors cap, concurrent callers of Add, AddWithCategory
\* and IncrementProcessed lose and duplicate nothing: every completed call
\* added exactly one entry or one to the processed count, and the entries
\* and the processed count together number the completed calls.
C34_NoLostUpdate ==
    /\ [](config.MaxErrors = 0 =>
            Len(errors) + totalProcessed + InCall(NumCallers)
                = CallsBegun(NumCallers))
    /\ [][\A c \in Callers :
            (config.MaxErrors = 0 /\ callPc[c] # "idle" /\ callPc'[c] = "idle")
            => IF callPc[c] = "IncrementProcessed"
               THEN /\ totalProcessed' = totalProcessed + 1
                    /\ errors' = errors
               ELSE /\ errors' = Append(errors, "e")
                    /\ totalProcessed' = totalProcessed]_vars

\* C34 witness: no cap; every caller has made all its calls, and the
\* collector holds one entry and one processed count per caller.
C34_Witness ==
    /\ config.MaxErrors = 0
    /\ \A c \in Callers : callPc[c] = "idle" /\ callOps[c] = MaxOps
    /\ Len(errors) = NumCallers
    /\ totalProcessed = NumCallers

\* C39: while the processed count is 0 the collector's context is not
\* cancelled, and an Add made at a processed count of 0 appends its entry,
\* cancels nothing and does not return the threshold error.
C39_NoBreachBeforeFirstIncrement ==
    /\ [](totalProcessed = 0 => ~colCtxDone /\ ~ThresholdExceeded)
    /\ [][\A c \in Callers :
            (/\ callPc[c] = "Add" /\ callPc'[c] = "idle"
             /\ totalProcessed = 0
             /\ ~LimitReached(errors))
            => /\ errors' = Append(errors, "e")
               /\ addRet' = "nil"
               /\ ~colCtxDone']_vars

\* C39 witness: under the aborting policy, with no cap, four errors have
\* been added at a processed count of 0 and the last Add returned nil.
C39_Witness ==
    /\ config.AbortOnError /\ config.MaxErrors = 0
    /\ totalProcessed = 0
    /\ Len(errors) = NumCallers * MaxOps
    /\ addRet = "nil"
    /\ ~colCtxDone

\* ------------------------------------------------- the semaphore on its own
\* A send on s.slots is ready: the channel holds fewer values than its
\* capacity.
SlotFreeAlways(sem) == TRUE
SlotFree(sem) == sem.len < sem.cap

\* Semaphore.Acquire once its send is ready.
Acquire(sem) == [sem EXCEPT !.len = @ + 1]

\* Semaphore.TryAcquire: the send if it is ready, else the default case.
TryAcquire(sem) ==
    IF SlotFree(sem) THEN [sem |-> Acquire(sem), ret |-> "true"]
                     ELSE [sem |-> sem, ret |-> "false"]

\* Semaphore.AcquireContext: the outcomes of its select with the two cases
\* "send on s.slots" and "receive on ctx.Done()". A select with several ready
\* cases runs any one of them; with no ready case (empty set) it blocks.
AcquireContext(sem, done) ==
    (IF SlotFree(sem) THEN {[sem |-> Acquire(sem), ret |-> "nil"]} ELSE {})
        \cup (IF done THEN {[sem |-> sem, ret |-> "ctx.Err"]} ELSE {})

\* Variant of Release whose default case returns silently.
ReleaseSilent(sem) ==
    IF sem.len > 0 THEN [sem |-> [sem EXCEPT !.len = @ - 1], panic |-> FALSE]
                   ELSE [sem |-> sem, panic |-> FALSE]

\* Semaphore.Release: the receive if a value is in s.slots, else the default
\* case, which panics.
Release(sem) ==
    IF sem.len > 0 THEN [sem |-> [sem EXCEPT !.len = @ - 1], panic |-> FALSE]
                   ELSE [sem |-> sem, panic |-> TRUE]

Available(sem) == sem.cap - sem.len
Limit(sem) == sem.cap

\* Goroutines of the semaphore tests call the four operations in any order
\* and interleaving; the test's context may become done at any moment.
SemOperations == {"Acquire", "TryAcquire", "AcquireContext", "Release"}

\* The pipeline is not run while a component is exercised on its own.
InitIdlePipeline ==
    /\ config = [Workers |-> 1, BufferSize |-> 1, MaxErrors |-> 0,
                 ErrorThreshold |-> <<0, 1>>, AbortOnError |-> FALSE,
                 HasHeader |-> TRUE, ValidateHeader |-> FALSE,
                 ErrorBufferSize |-> ErrorBufferSize]
    /\ files = [s \in Sources |-> 0]
    /\ csv = [s \in Sources |-> GoodFile(0)]
    /\ InitPipeline

InitSemaphoreHarness ==
    /\ InitIdlePipeline
    /\ callPc = [c \in 1..NumCallers |-> "idle"]
    /\ callOps = [c \in 1..NumCallers |-> 0]
    /\ mu = 0
    /\ addRet = "none"
    /\ \E limit \in 0..MaxSemLimit : semaphore = NewSemaphore(limit)
    /\ semCtxDone = FALSE
    /\ semPc = [c \in 1..NumCallers |-> "idle"]
    /\ semOps = [c \in 1..NumCallers |-> 0]
    /\ semRet = [c \in 1..NumCallers |-> "none"]
    /\ acquires = 0
    /\ releases = 0
    /\ panicked = FALSE
    /\ InitPoolHarness
    /\ entries = <<>>
    /\ InitTracker /\ InitCopies

semFrame ==
    UNCHANGED <<constVars, pipelineVars, collectorVars, callPc, callOps, mu, addRet,
                poolHarnessVars, entries, trackerVars, copyVars>>

\* A caller enters one of the operations.
SemCall(c) ==
    /\ ~panicked
    /\ semPc[c] = "idle"
    /\ semOps[c] < MaxSemOps
    /\ \E op \in SemOperations : semPc' = [semPc EXCEPT ![c] = op]
    /\ semOps' = [semOps EXCEPT ![c] = @ + 1]
    /\ UNCHANGED <<semaphore, semCtxDone, semRet, acquires, releases, panicked>>
    /\ semFrame

SemAcquire(c) ==
    /\ ~panicked
    /\ semPc[c] = "Acquire"
    /\ SlotFree(semaphore)
    /\ semaphore' = Acquire(semaphore)
    /\ acquires' = acquires + 1
    /\ semRet' = [semRet EXCEPT ![c] = "return"]
    /\ semPc' = [semPc EXCEPT ![c] = "idle"]
    /\ UNCHANGED <<semCtxDone, semOps, releases, panicked>>
    /\ semFrame

SemTryAcquire(c) ==
    /\ ~panicked
    /\ semPc[c] = "TryAcquire"
    /\ LET o == TryAcquire(semaphore)
       IN /\ semaphore' = o.sem
          /\ acquires' = IF o.ret = "true" THEN acquires + 1 ELSE acquires
          /\ semRet' = [semRet EXCEPT ![c] = o.ret]
    /\ semPc' = [semPc EXCEPT ![c] = "idle"]
    /\ UNCHANGED <<semCtxDone, semOps, releases, panicked>>
    /\ semFrame

SemAcquireContext(c) ==
    /\ ~panicked
    /\ semPc[c] = "AcquireContext"
    /\ \E o \in AcquireContext(semaphore, semCtxDone) :
          /\ semaphore' = o.sem
          /\ acquires' = IF o.ret = "nil" THEN acquires + 1 ELSE acquires
          /\ semRet' = [semRet EXCEPT ![c] = o.ret]
    /\ semPc' = [semPc EXCEPT ![c] = "idle"]
    /\ UNCHANGED <<semCtxDone, semOps, releases, panicked>>
    /\ semFrame

SemRelease(c) ==
    /\ ~panicked
    /\ semPc[c] = "Release"
    /\ LET o == Release(semaphore)
       IN /\ semaphore' = o.sem
          /\ panicked' = o.panic
          /\ releases' = IF o.panic THEN releases ELSE releases + 1
          /\ semRet' = [semRet EXCEPT ![c] = IF o.panic THEN "panic" ELSE "return"]
    /\ semPc' = [semPc EXCEPT ![c] = "idle"]
    /\ UNCHANGED <<semCtxDone, semOps, acquires>>
    /\ semFrame

\* The context of the AcquireContext calls is cancelled or passes its
\* deadline.
SemCtxDone ==
    /\ ~panicked
    /\ ~semCtxDone
    /\ semCtxDone' = TRUE
    /\ UNCHANGED <<semaphore, semPc, semOps, semRet, acquires, releases, panicked>>
    /\ semFrame

NextSemaphore ==
    \/ \E c \in Callers : SemCall(c)
    \/ \E c \in Callers : SemAcquire(c)
    \/ \E c \in Callers : SemTryAcquire(c)
    \/ \E c \in Callers : SemAcquireContext(c)
    \/ \E c \in Callers : SemRelease(c)
    \/ SemCtxDone

SpecSemaphore == InitSemaphoreHarness /\ [][NextSemaphore]_vars

\* C26: the slots held (acquires completed minus releases completed) are
\* between 0 and the limit L, Available() is L minus the slots held, and no
\* call of Acquire completes in a state where L slots are held.
C26_SlotsWithinLimit ==
    /\ [](/\ acquires - releases \in 0..Limit(semaphore)
          /\ Available(semaphore) = Limit(semaphore) - (acquires - releases))
    /\ [][\A c \in Callers :
            (semPc[c] = "Acquire" /\ semPc'[c] = "idle")
                => acquires - releases < Limit(semaphore)]_vars

\* C26 witness: all slots of a semaphore of the largest limit are held after
\* a release has taken place, and a caller is inside Acquire.
C26_Witness ==
    /\ Limit(semaphore) = MaxSemLimit
    /\ acquires - releases = Limit(semaphore)
    /\ releases > 0
    /\ \E c \in Callers : semPc[c] = "Acquire"

\* C27: the releases completed never exceed the acquires completed, and a
\* Release() entered when they are equal panics and leaves the slot count as
\* it was; nothing else panics.
C27_ReleaseWithoutAcquirePanics ==
    /\ [](releases <= acquires)
    /\ [][\A c \in Callers :
            (semPc[c] = "Release" /\ semPc'[c] = "idle" /\ releases = acquires)
                => (panicked' /\ semaphore' = semaphore /\ releases' = releases)]_vars
    /\ [][panicked' # panicked
            => \E c \in Callers : semPc[c] = "Release" /\ releases = acquires]_vars

\* C27 witness: a caller's first call, a Release(), has panicked after an
\* acquire and a release of the other caller had completed.
C27_Witness ==
    /\ panicked
    /\ acquires > 0
    /\ releases = acquires
    /\ \E c \in Callers : semRet[c] = "panic" /\ semOps[c] = 1

\* C28: a call of AcquireContext that runs its select when the context is
\* done returns the context's error and takes no slot.
C28_DoneContextNeverAcquires ==
    [][\A c \in Callers :
        (semPc[c] = "AcquireContext" /\ semPc'[c] = "idle" /\ semCtxDone)
            => (semRet'[c] = "ctx.Err" /\ semaphore' = semaphore)]_vars

\* ------------------------------------- the pool with a semaphore on its own
\* Goroutine ids of a pool: those that Start spawns running worker, and those
\* that the loop of StartWithBackpressure spawns running workerWithSemaphore.
PlainIds == 1..config.Workers
SemId(i) == MaxWorkers + i + 1
IsSem(t) == t > MaxWorkers

\* Outcomes of the processor in the pool harness: a Result or an error.
PoolOutcomes == {StatusSuccess, "ERROR"}

\* A PoolWithSemaphore from NewPoolWithSemaphore(config, maxConcurrent) with
\* maxConcurrent > 0, over an input channel that already holds some records
\* and may be closed. Nothing is started.
InitPoolWithSemaphore ==
    /\ \E w \in 1..MaxWorkers, e \in 1..MaxErrBuf :
          config = [Workers |-> w, BufferSize |-> 1, MaxErrors |-> 0,
                    ErrorThreshold |-> <<0, 1>>, AbortOnError |-> FALSE,
                    HasHeader |-> TRUE, ValidateHeader |-> FALSE,
                    ErrorBufferSize |-> e]
    /\ files = [s \in Sources |-> 0]
    /\ csv = [s \in Sources |-> GoodFile(0)]
    /\ runPc = "created"
    /\ runResult = "none"
    /\ ctxDone = FALSE
    /\ emittedAtCancel = [s \in Sources |-> 0]
    /\ srcPc = [s \in Sources |-> "idle"]
    /\ lineNumber = [s \in Sources |-> 0]
    /\ \E n \in 0..MaxPoolRecords : recordCh = [i \in 1..n |-> <<1, i>>]
    /\ readerErrCh = <<>>
    /\ readerClosed \in BOOLEAN
    /\ commonHeader = <<>>
    /\ errsBy = [s \in Sources |-> <<>>]
    /\ emittedBy = [s \in Sources |-> 0]
    /\ sigPc = "none"
    /\ workerPool = TRUE
    /\ started = FALSE
    /\ poolCtxDone = FALSE
    /\ wpc = [w \in Workers |-> "none"]
    /\ wres = [w \in Workers |-> "none"]
    /\ outputCh = <<>>
    /\ errorCh = <<>>
    /\ poolClosed = FALSE
    /\ hrPc = "none"
    /\ hrRes = "none"
    /\ rePc = "none"
    /\ wePc = "none"
    /\ summary = [total |-> 0, success |-> 0, failed |-> 0, skipped |-> 0]
    /\ written = 0
    /\ errors = <<>>
    /\ totalProcessed = 0
    /\ colCtxDone = FALSE
    /\ stopPc = "idle"
    /\ emitted = Len(recordCh)
    /\ invoked = 0
    /\ produced = 0
    /\ callPc = [c \in 1..NumCallers |-> "idle"]
    /\ callOps = [c \in 1..NumCallers |-> 0]
    /\ mu = 0
    /\ addRet = "none"
    /\ \E m \in 1..MaxSemLimit : semaphore = NewSemaphore(m)
    /\ semCtxDone = FALSE
    /\ semPc = [c \in 1..NumCallers |-> "idle"]
    /\ semOps = [c \in 1..NumCallers |-> 0]
    /\ semRet = [c \in 1..NumCallers |-> "none"]
    /\ acquires = 0
    /\ releases = 0
    /\ panicked = FALSE
    /\ InitPoolHarness
    /\ entries = <<>>
    /\ InitTracker /\ InitCopies

poolFrame ==
    /\ UNCHANGED <<constVars, runVars, ctxDone, emittedAtCancel, stopPc, consumerVars, collectorVars>>
    /\ UNCHANGED <<callPc, callOps, mu, addRet, wpc, wres>>
    /\ UNCHANGED <<srcPc, lineNumber, readerErrCh, readerClosed, emitted, readerAux>>
    /\ UNCHANGED <<semCtxDone, semPc, semOps, semRet, acquires, releases, entries>>
    /\ UNCHANGED <<trackerVars, copyVars>>

\* Nothing runs after a panic.
PoolRunning == ~sentOnClosed /\ ~panicked

\* Variant of the check of p.started that never finds the pool started.
AlreadyStartedNever == FALSE
\* if p.started { return fmt.Errorf("pool already started") }
AlreadyStarted == started

\* Pool.Start, its whole body under p.mu: what it returns and what it leaves
\* behind. A pool that is already started is left as it is; otherwise one
\* worker per p.workers is added to wg and spawned, and one finalizer.
PoolStartBody(ret) ==
    IF AlreadyStarted
    THEN /\ ret = "already started"
         /\ UNCHANGED <<started, pwPc, wgCount, finWaiting, finalizers, spawned>>
    ELSE /\ ret = "nil"
         /\ started' = TRUE
         /\ pwPc' = [t \in DOMAIN pwPc |-> IF t \in PlainIds THEN "select" ELSE pwPc[t]]
         /\ wgCount' = wgCount + config.Workers
         /\ spawned' = spawned + config.Workers
         /\ finWaiting' = finWaiting + 1
         /\ finalizers' = finalizers + 1

\* A caller calls p.Start().
PoolCallStart(c) ==
    /\ PoolRunning
    /\ poolCall[c].pc = "idle"
    /\ poolCall[c].ops < MaxPoolCalls
    /\ \E ret \in {"nil", "already started"} :
          /\ PoolStartBody(ret)
          /\ poolCall' = [poolCall EXCEPT ![c] =
                            [pc |-> "idle", i |-> 0, ops |-> @.ops + 1,
                             op |-> "Start", ret |-> ret]]
    /\ UNCHANGED <<poolCtxDone, poolClosed, outputCh, errorCh, recordCh, invoked,
                   produced, semaphore, panicked, pwRes, sentOnClosed>>
    /\ poolFrame

\* A caller calls p.StartWithBackpressure(): p.Start() first; its error is
\* returned, else the caller goes on to the loop that spawns the workers with
\* semaphore.
PoolCallStartWithBackpressure(c) ==
    /\ PoolRunning
    /\ poolCall[c].pc = "idle"
    /\ poolCall[c].ops < MaxPoolCalls
    /\ \E ret \in {"nil", "already started"} :
          /\ PoolStartBody(ret)
          /\ poolCall' = [poolCall EXCEPT ![c] =
                            [pc |-> IF ret = "nil" THEN "spawn" ELSE "idle",
                             i |-> 0, ops |-> @.ops + 1,
                             op |-> "StartWithBackpressure",
                             ret |-> IF ret = "nil" THEN "none" ELSE ret]]
    /\ UNCHANGED <<poolCtxDone, poolClosed, outputCh, errorCh, recordCh, invoked,
                   produced, semaphore, panicked, pwRes, sentOnClosed>>
    /\ poolFrame

\* One iteration of the loop of StartWithBackpressure: p.wg.Add(1) and
\* go p.workerWithSemaphore(i); after the last one the call returns nil.
PoolSpawnWithSemaphore(c) ==
    /\ PoolRunning
    /\ poolCall[c].pc = "spawn"
    /\ poolCall[c].i < config.Workers
    /\ wgCount' = wgCount + 1
    /\ spawned' = spawned + 1
    /\ pwPc' = [pwPc EXCEPT ![SemId(poolCall[c].i)] = "select"]
    /\ poolCall' = [poolCall EXCEPT ![c] =
                      IF @.i + 1 < config.Workers
                      THEN [@ EXCEPT !.i = @ + 1]
                      ELSE [@ EXCEPT !.i = @ + 1, !.pc = "idle", !.ret = "nil"]]
    /\ UNCHANGED <<started, poolCtxDone, poolClosed, outputCh, errorCh, recordCh,
                   invoked, produced, semaphore, panicked, pwRes, finWaiting,
                   finalizers, sentOnClosed>>
    /\ poolFrame

\* A caller calls p.Stop(): the pool's context is cancelled.
PoolCallStop(c) ==
    /\ PoolRunning
    /\ poolCall[c].pc = "idle"
    /\ poolCall[c].ops < MaxPoolCalls
    /\ poolCtxDone' = TRUE
    /\ poolCall' = [poolCall EXCEPT ![c] =
                      [pc |-> "idle", i |-> 0, ops |-> @.ops + 1,
                       op |-> "Stop", ret |-> "none"]]
    /\ UNCHANGED <<started, poolClosed, outputCh, errorCh, recordCh, invoked,
                   produced, semaphore, panicked, pwPc, pwRes, wgCount, finWaiting,
                   finalizers, spawned, sentOnClosed>>
    /\ poolFrame

\* A worker returns: the deferred p.wg.Done().
PwExit(t) ==
    /\ pwPc' = [pwPc EXCEPT ![t] = "exited"]
    /\ pwRes' = [pwRes EXCEPT ![t] = "none"]
    /\ wgCount' = wgCount - 1

\* The select of either worker loop: the ctx.Done() case.
PwCancelled(t) ==
    /\ PoolRunning
    /\ pwPc[t] = "select"
    /\ poolCtxDone
    /\ PwExit(t)
    /\ UNCHANGED <<started, poolCtxDone, poolClosed, outputCh, errorCh, recordCh,
                   invoked, produced, semaphore, panicked, finWaiting, finalizers,
                   spawned, poolCall, sentOnClosed>>
    /\ poolFrame

\* The select of either worker loop: the input channel is closed and drained.
PwInputClosed(t) ==
    /\ PoolRunning
    /\ pwPc[t] = "select"
    /\ recordCh = <<>>
    /\ readerClosed
    /\ PwExit(t)
    /\ UNCHANGED <<started, poolCtxDone, poolClosed, outputCh, errorCh, recordCh,
                   invoked, produced, semaphore, panicked, finWaiting, finalizers,
                   spawned, poolCall, sentOnClosed>>
    /\ poolFrame

\* The select of either worker loop: a record is received. worker goes on to
\* processRecord, workerWithSemaphore to AcquireContext.
PwReceive(t) ==
    /\ PoolRunning
    /\ pwPc[t] = "select"
    /\ recordCh # <<>>
    /\ recordCh' = Tail(recordCh)
    /\ pwPc' = [pwPc EXCEPT ![t] = IF IsSem(t) THEN "acquire" ELSE "process"]
    /\ UNCHANGED <<started, poolCtxDone, poolClosed, outputCh, errorCh, invoked,
                   produced, semaphore, panicked, pwRes, wgCount, finWaiting,
                   finalizers, spawned, poolCall, sentOnClosed>>
    /\ poolFrame

\* workerWithSemaphore: p.semaphore.AcquireContext(p.ctx); on an error the
\* worker returns.
PwAcquire(t) ==
    /\ PoolRunning
    /\ pwPc[t] = "acquire"
    /\ \E o \in AcquireContext(semaphore, poolCtxDone) :
          /\ semaphore' = o.sem
          /\ IF o.ret = "nil"
             THEN /\ pwPc' = [pwPc EXCEPT ![t] = "process"]
                  /\ UNCHANGED <<pwRes, wgCount>>
             ELSE PwExit(t)
    /\ UNCHANGED <<started, poolCtxDone, poolClosed, outputCh, errorCh, recordCh,
                   invoked, produced, panicked, finWaiting, finalizers, spawned,
                   poolCall, sentOnClosed>>
    /\ poolFrame

\* processRecord returns: the processor has returned a Result or an error; an
\* error goes to errorCh by a non-blocking send, which panics when the
\* finalizer has closed errorCh. workerWithSemaphore then releases its slot.
PwProcess(t) ==
    /\ PoolRunning
    /\ pwPc[t] = "process"
    /\ invoked' = invoked + 1
    /\ \E o \in PoolOutcomes :
          /\ pwRes' = [pwRes EXCEPT ![t] = ResultOf(o)]
          /\ sentOnClosed' = (o = "ERROR" /\ poolClosed)
          /\ errorCh' = IF o = "ERROR" /\ ~poolClosed
                        THEN ErrorChSend(errorCh, "worker") ELSE errorCh
    /\ IF IsSem(t)
       THEN LET r == Release(semaphore)
            IN semaphore' = r.sem /\ panicked' = r.panic
       ELSE UNCHANGED <<semaphore, panicked>>
    /\ pwPc' = [pwPc EXCEPT ![t] = "send"]
    /\ UNCHANGED <<started, poolCtxDone, poolClosed, outputCh, recordCh, produced,
                   wgCount, finWaiting, finalizers, spawned, poolCall>>
    /\ poolFrame

\* The select that sends the Result: the send case is ready when outputCh has
\* room, and also when outputCh is closed: the send then panics.
PwSend(t) ==
    /\ PoolRunning
    /\ pwPc[t] = "send"
    /\ poolClosed \/ Len(outputCh) < OutputChCap
    /\ IF poolClosed
       THEN /\ sentOnClosed' = TRUE
            /\ UNCHANGED <<outputCh, produced, pwPc, pwRes>>
       ELSE /\ outputCh' = Append(outputCh, pwRes[t])
            /\ produced' = produced + 1
            /\ pwRes' = [pwRes EXCEPT ![t] = "none"]
            /\ pwPc' = [pwPc EXCEPT ![t] = "select"]
            /\ UNCHANGED sentOnClosed
    /\ UNCHANGED <<started, poolCtxDone, poolClosed, errorCh, recordCh, invoked,
                   semaphore, panicked, wgCount, finWaiting, finalizers, spawned,
                   poolCall>>
    /\ poolFrame

\* The select that sends the Result: the ctx.Done() case.
PwSendCancelled(t) ==
    /\ PoolRunning
    /\ pwPc[t] = "send"
    /\ poolCtxDone
    /\ PwExit(t)
    /\ UNCHANGED <<started, poolCtxDone, poolClosed, outputCh, errorCh, recordCh,
                   invoked, produced, semaphore, panicked, finWaiting, finalizers,
                   spawned, poolCall, sentOnClosed>>
    /\ poolFrame

\* A finalizer goroutine of Start: p.wg.Wait() returns when the counter is
\* zero, then close(p.outputCh) and close(p.errorCh); closing a closed
\* channel panics.
PoolFinalize ==
    /\ PoolRunning
    /\ finWaiting > 0
    /\ wgCount = 0
    /\ finWaiting' = finWaiting - 1
    /\ poolClosed' = TRUE
    /\ panicked' = poolClosed
    /\ UNCHANGED <<started, poolCtxDone, outputCh, errorCh, recordCh, invoked,
                   produced, semaphore, pwPc, pwRes, wgCount, finalizers, spawned,
                   poolCall, sentOnClosed>>
    /\ poolFrame

\* The reader of p.Results() takes a Result.
PoolConsume ==
    /\ PoolRunning
    /\ outputCh # <<>>
    /\ outputCh' = Tail(outputCh)
    /\ UNCHANGED <<started, poolCtxDone, poolClosed, errorCh, recordCh, invoked,
                   produced, semaphore, panicked, pwPc, pwRes, wgCount, finWaiting,
                   finalizers, spawned, poolCall, sentOnClosed>>
    /\ poolFrame

PoolTasks == DOMAIN pwPc

NextPool ==
    \/ \E c \in Callers : PoolCallStart(c)
    \/ \E c \in Callers : PoolCallStartWithBackpressure(c)
    \/ \E c \in Callers : PoolSpawnWithSemaphore(c)
    \/ \E c \in Callers : PoolCallStop(c)
    \/ \E t \in PoolTasks : PwCancelled(t)
    \/ \E t \in PoolTasks : PwInputClosed(t)
    \/ \E t \in PoolTasks : PwReceive(t)
    \/ \E t \in PoolTasks : PwAcquire(t)
    \/ \E t \in PoolTasks : PwProcess(t)
    \/ \E t \in PoolTasks : PwSend(t)
    \/ \E t \in PoolTasks : PwSendCancelled(t)
    \/ PoolFinalize
    \/ PoolConsume

SpecPool == InitPoolWithSemaphore /\ [][NextPool]_vars

\* Worker goroutines that are inside the call of the processor.
InProcessing == {t \in PoolTasks : pwPc[t] = "process"}

\* C23: a Start() (also the one inside StartWithBackpressure()) made on a
\* started pool returns the 'already started' error and spawns nothing: the
\* workers, the WaitGroup and the finalizers stay as they are. The pool never
\* has more than one finalizer, nor more plain workers than its worker count.
C23_SecondStartRefused ==
    /\ [][\A c \in Callers :
            (/\ poolCall'[c].ops = poolCall[c].ops + 1
             /\ poolCall'[c].op \in {"Start", "StartWithBackpressure"}
             /\ started)
            => (/\ poolCall'[c].ret = "already started"
                /\ poolCall'[c].pc = "idle"
                /\ UNCHANGED <<pwPc, wgCount, spawned, finWaiting, finalizers>>)]_vars
    /\ [](finalizers <= 1 /\ spawned <= 2 * config.Workers)

\* C23 witness: a caller's second call, a Start(), was refused while a worker
\* of the pool is processing a record, and the other caller made a call too.
C23_Witness ==
    /\ \E c \in Callers :
          /\ poolCall[c].ops = 2
          /\ poolCall[c].op = "Start"
          /\ poolCall[c].ret = "already started"
          /\ \E d \in Callers : d # c /\ poolCall[d].ops > 0
    /\ InProcessing # {}
    /\ finalizers = 1

\* C24: no worker of the pool ever sends on a closed result or error stream.
C24_NoSendOnClosedStream == ~sentOnClosed

\* C25: the number of records inside the processor never exceeds the limit m
\* of the pool's semaphore.
C25_AtMostLimitInProcessing == Cardinality(InProcessing) <= Limit(semaphore)

\* ------------------------------------------------- the taxonomy of errors
\* A Go error value as the chain of its layers, outermost first: each layer
\* has its dynamic type and an identity (the variable that holds it, or what
\* tells it apart from other values of its type). Two error values are == in
\* Go when they are the same value, here the same chain.
ErrorString(id) == <<[type |-> "*errors.errorString", id |-> id]>>
ErrInvalidCSV == ErrorString("ErrInvalidCSV")
ErrInvalidRecord == ErrorString("ErrInvalidRecord")
ErrProcessingFailed == ErrorString("ErrProcessingFailed")
ErrFileNotFound == ErrorString("ErrFileNotFound")
ErrEmptyFile == ErrorString("ErrEmptyFile")
ErrHeaderMismatch == ErrorString("ErrHeaderMismatch")
ErrContextCanceled == ErrorString("ErrContextCanceled")
ErrWorkerPoolClosed == ErrorString("ErrWorkerPoolClosed")
ErrMaxErrorsExceeded == ErrorString("ErrMaxErrorsExceeded")
ContextCanceled == ErrorString("context.Canceled")
ContextDeadlineExceeded ==
    <<[type |-> "context.deadlineExceededError", id |-> "context.DeadlineExceeded"]>>
CsvErrFieldCount == <<[type |-> "*csv.ParseError", id |-> "csv.ErrFieldCount"]>>

\* NewValidationError and NewProcessingError; a ProcessingError wraps err.
NewValidationError(field) == <<[type |-> "*ValidationError", id |-> field]>>
NewProcessingError(op, err) == <<[type |-> "*ProcessingError", id |-> op]>> \o err

CategoryValidation == "VALIDATION"
CategoryProcessing == "PROCESSING"
CategoryIO == "IO"
CategoryTimeout == "TIMEOUT"
CategoryUnknown == "UNKNOWN"
Categories == {CategoryValidation, CategoryProcessing, CategoryIO, CategoryTimeout,
               CategoryUnknown}

SeverityLow == "LOW"
SeverityMedium == "MEDIUM"
SeverityHigh == "HIGH"
SeverityCritical == "CRITICAL"
Severities == {SeverityLow, SeverityMedium, SeverityHigh, SeverityCritical}

\* The four tests look at the dynamic type of err and compare err itself
\* with the sentinels; none of them unwraps.
IsValidationError(err) ==
    \/ Head(err).type = "*ValidationError"
    \/ err = ErrInvalidRecord
    \/ err = ErrHeaderMismatch

IsIOError(err) == err = ErrFileNotFound \/ err = ErrEmptyFile

IsTimeoutError(err) == err = ContextDeadlineExceeded

IsProcessingError(err) ==
    \/ Head(err).type = "*ProcessingError"
    \/ err = ErrProcessingFailed

categorizeError(err) ==
    IF IsValidationError(err) THEN CategoryValidation
    ELSE IF IsIOError(err) THEN CategoryIO
    ELSE IF IsTimeoutError(err) THEN CategoryTimeout
    ELSE IF IsProcessingError(err) THEN CategoryProcessing
    ELSE CategoryUnknown

determineSeverity(err) ==
    IF err = ErrMaxErrorsExceeded THEN SeverityCritical
    ELSE IF err = ErrContextCanceled THEN SeverityHigh
    ELSE IF IsValidationError(err) THEN SeverityLow
    ELSE IF IsIOError(err) THEN SeverityMedium
    ELSE SeverityMedium

\* Variant of isRetryable without the timeout case.
isRetryableIOOnly(err) ==
    IF IsValidationError(err) THEN FALSE
    ELSE IF IsIOError(err) THEN TRUE
    ELSE FALSE

isRetryable(err) ==
    IF IsValidationError(err) THEN FALSE
    ELSE IF IsIOError(err) THEN TRUE
    ELSE IF IsTimeoutError(err) THEN TRUE
    ELSE FALSE

\* The ErrorEntry that Add appends for err, and the one AddWithCategory
\* appends for err and an explicit category.
AddEntry(err) ==
    [Error |-> err, Category |-> categorizeError(err),
     Severity |-> determineSeverity(err), Retryable |-> isRetryable(err)]
AddWithCategoryEntry(err, category) ==
    [Error |-> err, Category |-> category,
     Severity |-> determineSeverity(err), Retryable |-> isRetryable(err)]

\* Errors handed to a collector: every sentinel, the two context errors, a
\* ValidationError, a plain error, and ProcessingErrors around a sentinel of
\* each kind.
ErrorValues ==
    {ErrInvalidCSV, ErrInvalidRecord, ErrProcessingFailed, ErrFileNotFound,
     ErrEmptyFile, ErrHeaderMismatch, ErrContextCanceled, ErrWorkerPoolClosed,
     ErrMaxErrorsExceeded, ContextCanceled, ContextDeadlineExceeded,
     CsvErrFieldCount, NewValidationError("name"), ErrorString("other"),
     NewProcessingError("read", ErrFileNotFound),
     NewProcessingError("validate_header", ErrHeaderMismatch),
     NewProcessingError("process", ContextDeadlineExceeded),
     NewProcessingError("process", ErrMaxErrorsExceeded)}

\* A collector without an error cap; nothing else runs.
InitTaxonomy ==
    /\ InitIdlePipeline
    /\ callPc = [c \in 1..NumCallers |-> "idle"]
    /\ callOps = [c \in 1..NumCallers |-> 0]
    /\ mu = 0
    /\ addRet = "none"
    /\ InitComponents

taxFrame ==
    UNCHANGED <<constVars, pipelineVars, collectorVars, callPc, callOps, mu, addRet,
                semVars, poolHarnessVars, trackerVars, copyVars>>

\* Collector.Add(err, record) with a non-nil err.
TaxAdd ==
    /\ Len(entries) < MaxEntries
    /\ \E err \in ErrorValues : entries' = Append(entries, AddEntry(err))
    /\ taxFrame

\* Collector.AddWithCategory(err, record, category) with a non-nil err.
TaxAddWithCategory ==
    /\ Len(entries) < MaxEntries
    /\ \E err \in ErrorValues, category \in Categories :
          entries' = Append(entries, AddWithCategoryEntry(err, category))
    /\ taxFrame

NextTaxonomy == TaxAdd \/ TaxAddWithCategory

SpecTaxonomy == InitTaxonomy /\ [][NextTaxonomy]_vars

\* C29: every entry has one of the five categories and one of the four
\* severities; a validation error has severity Low, an IO error Medium, the
\* max-errors-exceeded error Critical, the cancellation error High and every
\* other error Medium; the entry is retryable exactly when its error is a
\* timeout or an IO error. Entries of the same error made by Add are alike.
C29_FixedClassification ==
    /\ \A i \in 1..Len(entries) :
          LET en == entries[i]
              err == en.Error
          IN /\ en.Category \in Categories
             /\ en.Severity \in Severities
             /\ IsValidationError(err) => en.Severity = SeverityLow
             /\ IsIOError(err) => en.Severity = SeverityMedium
             /\ err = ErrMaxErrorsExceeded => en.Severity = SeverityCritical
             /\ err = ErrContextCanceled => en.Severity = SeverityHigh
             /\ (/\ ~IsValidationError(err) /\ ~IsIOError(err)
                 /\ err # ErrMaxErrorsExceeded /\ err # ErrContextCanceled)
                => en.Severity = SeverityMedium
             /\ en.Retryable <=> (IsTimeoutError(err) \/ IsIOError(err))
    /\ \A i, j \in 1..Len(entries) :
          entries[i].Error = entries[j].Error
              => /\ entries[i].Severity = entries[j].Severity
                 /\ entries[i].Retryable = entries[j].Retryable

\* C29 witness: the collector holds a timeout error, which is retryable and
\* Medium, next to the max-errors-exceeded error.
C29_Witness ==
    /\ Len(entries) = MaxEntries
    /\ \E i \in 1..Len(entries) :
          /\ entries[i].Error = ContextDeadlineExceeded
          /\ entries[i].Retryable
          /\ entries[i].Severity = SeverityMedium
    /\ \E i \in 1..Len(entries) :
          /\ entries[i].Error = ErrMaxErrorsExceeded
          /\ entries[i].Severity = SeverityCritical

\* The error value that a string of ReadFileOpen or CsvRead stands for.
GoError(msg) ==
    CASE msg = "file not found" -> ErrFileNotFound
      [] msg = "file is empty" -> ErrEmptyFile
      [] msg = "invalid csv" -> NewProcessingError("validate_header", ErrInvalidCSV)
      [] msg = "wrong number of fields" -> NewProcessingError("read_record", CsvErrFieldCount)
      [] OTHER -> NewProcessingError("validate_header", ErrorString(msg))

\* The error value that the task of source s has sent on errCh.
SentError(s) ==
    IF errsBy[s] = <<"validate_header">>
    THEN NewProcessingError("validate_header", ErrHeaderMismatch)
    ELSE NewProcessingError("read",
            IF ReadFileOpen(s) # "nil" THEN GoError(ReadFileOpen(s))
            ELSE GoError("wrong number of fields"))

\* C30: once the collector has recorded every error the reader sent, the
\* entry of a source that is missing or empty has category IO, and the entry
\* of a source with a malformed header or a header mismatch has category
\* Validation.
C30_ReaderErrorsByCause ==
    (/\ readerErrCh = <<>>
     /\ Count(errors, {"read", "validate_header"}) = ReaderErrorsSent(NumSources))
    => \A s \in Sources :
          errsBy[s] # <<>> =>
              LET en == AddEntry(SentError(s))
              IN /\ csv[s].kind \in {"missing", "empty"} => en.Category = CategoryIO
                 /\ (/\ csv[s].kind = "ok"
                     /\ \/ errsBy[s] = <<"validate_header">>
                        \/ config.HasHeader /\ validateHeaders(csv[s].header) # "nil")
                    => en.Category = CategoryValidation

\* ------------------------------------------------------ the output sink
\* C32: when Run has returned, the number of lines written to the output
\* sink equals the Summary's count of successful Results.
C32_OneLinePerSuccess == runPc = "done" => written = summary.success

\* ------------------------------------- the collector during a pipeline run
\* C36: in every state of a run in which the processed count is positive,
\* the collector holds no more error entries than the processed count (an
\* error rate within 0.0-1.0).
C36_ErrorsWithinProcessed ==
    totalProcessed > 0 => Len(errors) <= totalProcessed

\* C37: once the collector's context is cancelled (which only a threshold
\* breach in Add does), ThresholdExceeded() is true in every later state.
C37_ThresholdStaysExceeded == colCtxDone => ThresholdExceeded

\* C38: the collector's processed count never exceeds the Summary's total,
\* is behind it by at most one (the Result the results consumer has in hand)
\* and equals it when Run has returned.
C38_ProcessedOncePerResult ==
    /\ totalProcessed <= summary.total
    /\ summary.total <= totalProcessed + 1
    /\ runPc = "done" => totalProcessed = summary.total

\* C38 witness: Run has returned after the results consumer handled a
\* successful, a failed and a skipped Result, each counted once.
C38_Witness ==
    /\ runPc = "done"
    /\ summary.success = 1 /\ summary.failed = 1 /\ summary.skipped = 1
    /\ totalProcessed = 3

\* ------------------------------------------- errors of the capability
\* C35: while the pool's streams are open, a worker whose processor call
\* returned an error is never blocked by the error stream (processRecord can
\* always return), holds a Failed Result afterwards, has put the error on the
\* error stream if it had room and dropped it otherwise, and the Result it
\* then sends on the result stream is that Failed Result.
C35_ErrorNeverBlocksResult ==
    /\ [](\A t \in PoolTasks :
            (pwPc[t] = "process" /\ PoolRunning) => ENABLED PwProcess(t))
    /\ [][\A t \in PoolTasks :
            (/\ pwPc[t] = "process" /\ pwPc'[t] = "send"
             /\ ~poolClosed
             /\ pwRes'[t] # StatusSuccess)
            => /\ pwRes'[t] = StatusFailed
               /\ errorCh' = IF Len(errorCh) < ErrorChCap
                             THEN Append(errorCh, "worker") ELSE errorCh
               /\ Len(errorCh') <= ErrorChCap
               /\ outputCh' = outputCh]_vars
    /\ [][\A t \in PoolTasks :
            (pwPc[t] = "send" /\ pwPc'[t] = "select")
            => outputCh' = Append(outputCh, pwRes[t])]_vars

\* C35 witness: the error stream is full with one error while two Failed
\* Results exist, one on the result stream and one in the hands of a worker
\* about to send it: the second error was dropped, its Result was not.
C35_Witness ==
    /\ ~poolClosed /\ PoolRunning
    /\ Len(errorCh) = ErrorChCap
    /\ outputCh = <<StatusFailed>>
    /\ \E t \in PoolTasks : pwPc[t] = "send" /\ pwRes[t] = StatusFailed

\* -------------------------------------------------- the progress tracker
\* A ProgressTracker on its own, updated by concurrent callers through
\* RecordProcessed with a Success, Failed or Skipped Result and through
\* IncrementSuccess, IncrementFailed and IncrementSkipped.
InitTrackerHarness ==
    /\ InitIdlePipeline
    /\ callPc = [c \in 1..NumCallers |-> "idle"]
    /\ callOps = [c \in 1..NumCallers |-> 0]
    /\ mu = 0
    /\ addRet = "none"
    /\ InitComponents

trackFrame ==
    UNCHANGED <<constVars, pipelineVars, collectorVars, callPc, callOps, mu, addRet,
                semVars, poolHarnessVars, entries, copyVars>>

copyFrame ==
    UNCHANGED <<constVars, pipelineVars, collectorVars, callPc, callOps, mu, addRet,
                semVars, poolHarnessVars, entries, trackerVars>>

\* atomic.AddUint64(&counter, 1) on one of the tracker's counters.
AddUint64(t, counter) == [t EXCEPT ![counter] = @ + 1]

\* Variant of the second update that leaves the status counters alone.
CountStatusLost(t, status) == t

\* The second atomic add of an update: the switch on result.Status in
\* RecordProcessed, or the add to the counter IncrementSuccess,
\* IncrementFailed or IncrementSkipped is named after.
CountStatus(t, status) ==
    CASE status = StatusSuccess -> AddUint64(t, "success")
      [] status = StatusFailed -> AddUint64(t, "failed")
      [] status = StatusSkipped -> AddUint64(t, "skipped")
      [] OTHER -> t

TrackedStatuses == {StatusSuccess, StatusFailed, StatusSkipped}

\* RecordProcessed(result), first statement: processedCount is incremented;
\* the Result is not nil and has one of the three statuses.
RecordProcessed(c) ==
    /\ trackPc[c] = Idle
    /\ trackOps[c] < MaxTrackOps
    /\ tracker' = AddUint64(tracker, "processed")
    /\ \E status \in TrackedStatuses :
          trackPc' = [trackPc EXCEPT ![c] =
                         [op |-> "RecordProcessed", status |-> status]]
    /\ trackOps' = [trackOps EXCEPT ![c] = @ + 1]
    /\ trackFrame

\* IncrementSuccess / IncrementFailed / IncrementSkipped, first statement:
\* processedCount is incremented.
IncrementStatus(c) ==
    /\ trackPc[c] = Idle
    /\ trackOps[c] < MaxTrackOps
    /\ tracker' = AddUint64(tracker, "processed")
    /\ \E status \in TrackedStatuses :
          trackPc' = [trackPc EXCEPT ![c] =
                         [op |-> "Increment", status |-> status]]
    /\ trackOps' = [trackOps EXCEPT ![c] = @ + 1]
    /\ trackFrame

\* The second statement of either update.
TrackCount(c) ==
    /\ trackPc[c] # Idle
    /\ tracker' = CountStatus(tracker, trackPc[c].status)
    /\ trackPc' = [trackPc EXCEPT ![c] = Idle]
    /\ UNCHANGED trackOps
    /\ trackFrame

NextTracker ==
    \/ \E c \in Callers : RecordProcessed(c)
    \/ \E c \in Callers : IncrementStatus(c)
    \/ \E c \in Callers : TrackCount(c)

SpecTracker == InitTrackerHarness /\ [][NextTracker]_vars

\* Number of the callers 1..n that are between the two adds of an update.
RECURSIVE Updating(_)
Updating(n) ==
    IF n = 0 THEN 0
    ELSE (IF trackPc[n] = Idle THEN 0 ELSE 1) + Updating(n - 1)

\* Number of updates the callers 1..n have begun.
RECURSIVE UpdatesBegun(_)
UpdatesBegun(n) == IF n = 0 THEN 0 ELSE trackOps[n] + UpdatesBegun(n - 1)

\* C33: success + failed + skipped never exceeds processed; processed is
\* ahead by exactly the number of updates in progress; once every update has
\* completed the two are equal, and equal to the number of updates made.
C33_CountersAgree ==
    LET counted == tracker.success + tracker.failed + tracker.skipped
    IN /\ counted <= tracker.processed
       /\ tracker.processed = counted + Updating(NumCallers)
       /\ tracker.processed = UpdatesBegun(NumCallers)

\* C33 witness: every caller has completed all its updates, Results of the
\* three statuses were recorded, and the counters agree.
C33_Witness ==
    /\ \A c \in Callers : trackPc[c] = Idle /\ trackOps[c] = MaxTrackOps
    /\ tracker.success > 0 /\ tracker.failed > 0 /\ tracker.skipped > 0
    /\ tracker.processed = NumCallers * MaxTrackOps
    /\ tracker.success + tracker.failed + tracker.skipped = tracker.processed

\* ------------------------------------------ what the collector's reads return
\* Go slices are modelled with their backing arrays: heap is the sequence of
\* the arrays allocated so far, a slice is the index of its array with a
\* length and a capacity. A slice of capacity 0 has no array.
NilSlice == [arr |-> 0, len |-> 0, cap |-> 0]

\* The zero ErrorEntry, in the part of an array beyond every slice's length.
ZeroEntry ==
    [Error |-> <<>>, Category |-> "", Severity |-> "", Retryable |-> FALSE]

\* The elements a slice gives access to.
Elements(h, sl) == [i \in 1..sl.len |-> h[sl.arr][i]]

\* Capacities the runtime may give the array of a slice grown to n elements.
GrownCaps(n) == n..(n + MaxSpare)

\* append(sl, x): within the capacity the element is written into the
\* slice's own array; otherwise a new array is allocated, the elements are
\* copied and x is added. The set of possible outcomes.
AppendSlice(h, sl, x) ==
    IF sl.len < sl.cap
    THEN {[heap |-> [h EXCEPT ![sl.arr][sl.len + 1] = x],
           slice |-> [sl EXCEPT !.len = @ + 1]]}
    ELSE {[heap |-> Append(h, Elements(h, sl) \o <<x>>
                              \o [i \in 1..(c - sl.len - 1) |-> ZeroEntry]),
           slice |-> [arr |-> Len(h) + 1, len |-> sl.len + 1, cap |-> c]] :
             c \in GrownCaps(sl.len + 1)}

\* Variant of Errors that returns the collector's own slice.
ErrorsAlias(h, col) == [heap |-> h, slice |-> col]

\* Collector.Errors: make([]ErrorEntry, len(c.errors)) and copy.
Errors(h, col) ==
    [heap |-> Append(h, Elements(h, col)),
     slice |-> [arr |-> Len(h) + 1, len |-> col.len, cap |-> col.len]]

\* m[k] = v on a Go map.
MapSet(m, k, v) == [x \in DOMAIN m \cup {k} |-> IF x = k THEN v ELSE m[x]]

\* delete(m, k) on a Go map.
MapDelete(m, k) == [x \in DOMAIN m \ {k} |-> m[x]]

\* The loop of ErrorsByCategory / ErrorsBySeverity from its iteration i on:
\* grouped[key] = append(grouped[key], entry), starting from a nil slice for
\* a key not yet in the map. The set of possible outcomes.
RECURSIVE Grouped(_, _, _, _, _)
Grouped(h, m, col, field, i) ==
    IF i > col.len THEN {[heap |-> h, map |-> m]}
    ELSE LET entry == h[col.arr][i]
             k == entry[field]
             old == IF k \in DOMAIN m THEN m[k] ELSE NilSlice
         IN UNION {Grouped(o.heap, MapSet(m, k, o.slice), col, field, i + 1) :
                     o \in AppendSlice(h, old, entry)}

ErrorsByCategory(h, col) == Grouped(h, <<>>, col, "Category", 1)
ErrorsBySeverity(h, col) == Grouped(h, <<>>, col, "Severity", 1)

\* Number of the entries of col whose field has the value k.
CountBy(h, col, field, k) ==
    Cardinality({i \in 1..col.len : h[col.arr][i][field] = k})

\* Collector.Summary: an ErrorSummary value with two maps made in the call.
Summary(h, col) ==
    [TotalErrors |-> col.len,
     TotalProcessed |-> totalProcessed,
     ErrorRate |-> IF totalProcessed = 0 THEN <<0, 1>>
                   ELSE <<col.len, totalProcessed>>,
     RetryableErrors |-> CountBy(h, col, "Retryable", TRUE),
     ByCategory |-> [k \in {h[col.arr][i].Category : i \in 1..col.len} |->
                        CountBy(h, col, "Category", k)],
     BySeverity |-> [k \in {h[col.arr][i].Severity : i \in 1..col.len} |->
                        CountBy(h, col, "Severity", k)]]

\* What the caller sees through the value it holds.
HeldView(h, hd) ==
    CASE hd.kind = "Errors" -> Elements(h, hd.val)
      [] hd.kind \in {"ErrorsByCategory", "ErrorsBySeverity"} ->
            [k \in DOMAIN hd.val |-> Elements(h, hd.val[k])]
      [] OTHER -> hd.val

\* The value a read returns, as the caller sees it at that moment.
Returned(h, kind, val) ==
    [kind |-> kind, val |-> val,
     at |-> HeldView(h, [kind |-> kind, val |-> val]),
     reads |-> held.reads + 1, changes |-> held.changes]

\* Errors added to the collector of this harness, and the entry a caller
\* writes into what it was given.
CopyErrors == {ErrInvalidRecord, ErrFileNotFound}
CallerEntry == AddEntry(ErrMaxErrorsExceeded)

InitCopyHarness ==
    /\ InitIdlePipeline
    /\ callPc = [c \in 1..NumCallers |-> "idle"]
    /\ callOps = [c \in 1..NumCallers |-> 0]
    /\ mu = 0
    /\ addRet = "none"
    /\ InitComponents

\* Collector.Add with a non-nil error, no cap and no threshold:
\* c.errors = append(c.errors, entry).
CopyAdd ==
    /\ colErrors.len < MaxCopyEntries
    /\ \E err \in CopyErrors :
       \E o \in AppendSlice(heap, colErrors, AddEntry(err)) :
          /\ heap' = o.heap
          /\ colErrors' = o.slice
    /\ UNCHANGED held
    /\ copyFrame

\* The caller calls Errors() and keeps the slice.
ReadErrors ==
    /\ held.reads < MaxReads
    /\ LET o == Errors(heap, colErrors)
       IN /\ heap' = o.heap
          /\ held' = Returned(o.heap, "Errors", o.slice)
    /\ UNCHANGED colErrors
    /\ copyFrame

\* The caller calls ErrorsByCategory() and keeps the map.
ReadErrorsByCategory ==
    /\ held.reads < MaxReads
    /\ \E o \in ErrorsByCategory(heap, colErrors) :
          /\ heap' = o.heap
          /\ held' = Returned(o.heap, "ErrorsByCategory", o.map)
    /\ UNCHANGED colErrors
    /\ copyFrame

\* The caller calls ErrorsBySeverity() and keeps the map.
ReadErrorsBySeverity ==
    /\ held.reads < MaxReads
    /\ \E o \in ErrorsBySeverity(heap, colErrors) :
          /\ heap' = o.heap
          /\ held' = Returned(o.heap, "ErrorsBySeverity", o.map)
    /\ UNCHANGED colErrors
    /\ copyFrame

\* The caller calls Summary() and keeps the ErrorSummary.
ReadSummary ==
    /\ held.reads < MaxReads
    /\ held' = Returned(heap, "Summary", Summary(heap, colErrors))
    /\ UNCHANGED <<heap, colErrors>>
    /\ copyFrame

\* The slices the caller holds: the keys under which it holds them.
HeldSlices ==
    CASE held.kind = "Errors" -> {"-"}
      [] held.kind \in {"ErrorsByCategory", "ErrorsBySeverity"} -> DOMAIN held.val
      [] OTHER -> {}
HeldSlice(k) == IF held.kind = "Errors" THEN held.val ELSE held.val[k]
WithSlice(k, sl) ==
    IF held.kind = "Errors" THEN sl ELSE [held.val EXCEPT ![k] = sl]

\* The value the caller holds after a change of its own.
Changed(h, val) ==
    [held EXCEPT !.val = val,
                 !.at = HeldView(h, [kind |-> held.kind, val |-> val]),
                 !.changes = @ + 1]

\* The caller assigns to an element of a slice it was given.
CallerSetElement ==
    /\ held.changes < MaxChanges
    /\ \E k \in HeldSlices :
       \E i \in 1..HeldSlice(k).len :
          /\ heap' = [heap EXCEPT ![HeldSlice(k).arr][i] = CallerEntry]
          /\ held' = Changed(heap', held.val)
    /\ UNCHANGED colErrors
    /\ copyFrame

\* The caller appends to a slice it was given.
CallerAppend ==
    /\ held.changes < MaxChanges
    /\ \E k \in HeldSlices :
       \E o \in AppendSlice(heap, HeldSlice(k), CallerEntry) :
          /\ heap' = o.heap
          /\ held' = Changed(o.heap, WithSlice(k, o.slice))
    /\ UNCHANGED colErrors
    /\ copyFrame

\* The caller deletes a key of a map it was given.
CallerDeleteKey ==
    /\ held.changes < MaxChanges
    /\ held.kind \in {"ErrorsByCategory", "ErrorsBySeverity"}
    /\ \E k \in DOMAIN held.val :
          held' = Changed(heap, MapDelete(held.val, k))
    /\ UNCHANGED <<heap, colErrors>>
    /\ copyFrame

\* The caller changes a count in a map of the ErrorSummary it was given.
CallerSetCount ==
    /\ held.changes < MaxChanges
    /\ held.kind = "Summary"
    /\ \E k \in Categories :
          held' = Changed(heap, [held.val EXCEPT
                                   !.ByCategory = MapSet(@, k, 0)])
    /\ UNCHANGED <<heap, colErrors>>
    /\ copyFrame

NextCopies ==
    \/ CopyAdd
    \/ ReadErrors
    \/ ReadErrorsByCategory
    \/ ReadErrorsBySeverity
    \/ ReadSummary
    \/ CallerSetElement
    \/ CallerAppend
    \/ CallerDeleteKey
    \/ CallerSetCount

SpecCopies == InitCopyHarness /\ [][NextCopies]_vars

\* C31: what the caller holds is what it was given, with the changes it made
\* itself: no Add by the collector changes it; and no step other than an
\* Add, in particular no change the caller makes to a slice or map it was
\* given, changes the entries a read of the collector returns.
C31_ReadsReturnCopies ==
    /\ [](HeldView(heap, held) = held.at)
    /\ [][colErrors' = colErrors
            => Elements(heap', colErrors') = Elements(heap, colErrors)]_vars

\* C31 witness: the caller holds a slice returned by Errors() whose first
\* element it has overwritten; the collector has added an entry since the
\* read and holds two entries, neither of them the caller's.
C31_Witness ==
    /\ held.kind = "Errors"
    /\ held.val.len = 1
    /\ held.at = <<CallerEntry>>
    /\ colErrors.len = MaxCopyEntries
    /\ \A i \in 1..colErrors.len : heap[colErrors.arr][i] # CallerEntry

====
